---------------------------- MODULE Spec2Model ----------------------------
(***************************************************************************)
(* A model of the reclaim command-line client: the payload builders of     *)
(* src/src/main.rs, the request / response interpretation of               *)
(* src/src/reclaim_api.rs and the run() control flow that joins them.      *)
(*                                                                         *)
(* Text is modelled as a sequence of one-character strings, so that        *)
(* trimming, splitting at '=', JSON parsing and truncation are computed    *)
(* character by character as the code computes them.  The characters used  *)
(* are those of Alphabet; within it the JSON reader below accepts exactly  *)
(* what serde_json accepts for the texts of the model: strings with their  *)
(* escape sequences, integers, true, false, null, arrays and objects (no   *)
(* text of the model holds a fraction or an exponent).                     *)
(***************************************************************************)
EXTENDS Integers, Sequences, FiniteSets, TLC

(***************************************************************************)
(* Bounds of the model.                                                    *)
(***************************************************************************)
\* largest number of --set entries of one invocation
MaxSet == 2
\* largest length of a generated --set entry (pure-function specification)
MaxEntryLen == 4
\* largest number of --set entries given to a payload builder (builder
\* specification)
MaxBuildSet == 2
\* length of the long response body (error specification): more than the
\* summary budget, less than the body budget
LongBodyLen == 600
\* largest number of refreshes asked of the dashboard in one invocation
MaxRefresh == 1
\* the longest list of tasks list_tasks is applied to
MaxTasks == 3
\* the longest command buffer of the dashboard that a key is typed into
MaxCommand == 2
\* the longest text and the largest budget truncate_debug_text is applied to
MaxText == 4
MaxChars == 3

(***************************************************************************)
(* Option values.                                                          *)
(***************************************************************************)
None == [some |-> FALSE]
Some(x) == [some |-> TRUE, val |-> x]
IsSome(o) == o.some
IsNone(o) == ~o.some

(***************************************************************************)
(* JSON values (serde_json::Value).                                        *)
(***************************************************************************)
JNull == [t |-> "null"]
JBool(b) == [t |-> "bool", b |-> b]
JNum(n) == [t |-> "num", n |-> n]
JStr(s) == [t |-> "str", s |-> s]
JArr(a) == [t |-> "arr", a |-> a]
JObj(o) == [t |-> "obj", o |-> o]

\* Map::new()
EmptyMap == [k \in {} |-> JNull]

\* Map::insert: the value of an existing key is replaced whole
MapInsert(m, k, v) == [x \in DOMAIN m \cup {k} |-> IF x = k THEN v ELSE m[x]]

\* Value::get(key): Some(value) for an object that has the key
JsonGet(v, k) ==
  IF v.t = "obj" /\ k \in DOMAIN v.o THEN Some(v.o[k]) ELSE None

(***************************************************************************)
(* Characters and str helpers.                                             *)
(***************************************************************************)
\* the printable ASCII characters (but the grave accent) in ascending
\* code-point order
Alphabet ==
  << " ", "!", "\"", "#", "$", "%", "&", "'", "(", ")", "*", "+", ",", "-",
     ".", "/", "0", "1", "2", "3", "4", "5", "6", "7", "8", "9", ":", ";",
     "<", "=", ">", "?", "@", "A", "B", "C", "D", "E", "F", "G", "H", "I",
     "J", "K", "L", "M", "N", "O", "P", "Q", "R", "S", "T", "U", "V", "W",
     "X", "Y", "Z", "[", "\\", "]", "^", "_", "a", "b", "c", "d", "e",
     "f", "g", "h", "i", "j", "k", "l", "m", "n", "o", "p", "q", "r", "s",
     "t", "u", "v", "w", "x", "y", "z", "{", "|", "}", "~" >>

\* the position of each character in Alphabet
CharRankMap ==
  [c \in {Alphabet[i] : i \in 1..Len(Alphabet)} |->
     CHOOSE i \in 1..Len(Alphabet) : Alphabet[i] = c]

CharRank(c) == CharRankMap[c]

\* the text of a string literal of the source, as a sequence of characters
T(str) == [i \in 1..Len(str) |-> SubSeq(str, i, i)] \o <<>>

\* the first index from i on whose character satisfies Hit, Len(s) + 1 (or i,
\* when i is larger) if there is none
FirstWhere(s, i, Hit(_)) ==
  IF i > Len(s) THEN i
  ELSE CHOOSE k \in i..(Len(s) + 1) :
         /\ k > Len(s) \/ Hit(s[k])
         /\ \A j \in i..(k - 1) : ~Hit(s[j])

\* the last index up to i whose character satisfies Hit, 0 if there is none
LastWhere(s, i, Hit(_)) ==
  IF i < 1 THEN 0
  ELSE CHOOSE k \in 0..i :
         /\ k = 0 \/ Hit(s[k])
         /\ \A j \in (k + 1)..i : ~Hit(s[j])

\* the concatenation of a sequence of texts
RECURSIVE Flatten(_)
Flatten(parts) ==
  IF Len(parts) = 0 THEN <<>>
  ELSE IF Len(parts) = 1 THEN parts[1]
  ELSE LET h == Len(parts) \div 2
       IN Flatten(SubSeq(parts, 1, h)) \o Flatten(SubSeq(parts, h + 1, Len(parts)))

\* white space of str::trim and of the JSON grammar
IsWs(c) == c \in {" ", "\n", "\t", "\r"}
Digits == <<"0", "1", "2", "3", "4", "5", "6", "7", "8", "9">>
IsDigit(c) == c \in {"0", "1", "2", "3", "4", "5", "6", "7", "8", "9"}
DigitVal(c) == CharRank(c) - CharRank("0")

\* str::trim_start: the text from its first character that is not white space
NotWs(c) == ~IsWs(c)
TrimStart(s) == SubSeq(s, FirstWhere(s, 1, NotWs), Len(s))

\* str::trim_end: the text up to its last character that is not white space
TrimEnd(s) == SubSeq(s, 1, LastWhere(s, Len(s), NotWs))

\* str::trim
Trim(s) == TrimEnd(TrimStart(s))

\* lexicographic order of two texts (the key order of serde_json's Map): at
\* the first index where they differ, a has the smaller character or has ended
StrLess(a, b) ==
  LET at == CHOOSE i \in 1..(Len(b) + 1) :
              /\ i > Len(b) \/ i > Len(a) \/ a[i] # b[i]
              /\ \A j \in 1..(i - 1) : j <= Len(a) /\ a[j] = b[j]
  IN at <= Len(b) /\ (at > Len(a) \/ CharRank(a[at]) < CharRank(b[at]))

\* the keys of a map in iteration order: a key preceded by i - 1 keys is the
\* i-th
SortedKeys(ks) ==
  LET before == [k \in ks |-> Cardinality({o \in ks : StrLess(o, k)})]
  IN [i \in 1..Cardinality(ks) |-> CHOOSE k \in ks : before[k] = i - 1]

(***************************************************************************)
(* serde_json::from_str::<Value>: a recursive-descent reader.  Each        *)
(* parser returns [ok, val, next]: next is the index after the value.      *)
(***************************************************************************)
PFail == [ok |-> FALSE, val |-> JNull, next |-> 0]
POk(v, n) == [ok |-> TRUE, val |-> v, next |-> n]

\* index of the first character from i on that is not white space
SkipWs(s, i) == FirstWhere(s, i, NotWs)

\* does the text w occur in s at index i
Matches(s, i, w) ==
  /\ i + Len(w) - 1 <= Len(s)
  /\ \A j \in 1..Len(w) : s[i + j - 1] = w[j]

\* the character an escape sequence \c stands for, "" when the model does
\* not read it (\b, \f and \u are never generated)
Unescaped(c) ==
  IF c \in {"\"", "\\", "/"} THEN c
  ELSE IF c = "n" THEN "\n"
  ELSE IF c = "t" THEN "\t"
  ELSE IF c = "r" THEN "\r"
  ELSE ""

\* the number of consecutive backslashes that end just before index k of c
NotBackslash(ch) == ch # "\\"
BackslashRun(c, k) == k - 1 - LastWhere(c, k - 1, NotBackslash)

\* index k of c holds a backslash that starts an escape sequence: an even
\* number of backslashes precede it
StartsEscape(c, k) == c[k] = "\\" /\ BackslashRun(c, k) % 2 = 0

\* index k of c holds the character of an escape sequence
Escaped(c, k) == k > 1 /\ StartsEscape(c, k - 1)

\* index k of c holds a quote that no backslash escapes
IsClosingQuote(c, k) == c[k] = "\"" /\ BackslashRun(c, k) % 2 = 0

\* the index in rest of the quote that closes the string, Len(rest) + 1 when
\* there is none
ClosingQuote(rest) ==
  CHOOSE k \in 1..(Len(rest) + 1) :
    /\ k > Len(rest) \/ IsClosingQuote(rest, k)
    /\ \A j \in 1..(k - 1) : ~IsClosingQuote(rest, j)

\* the text that the characters at the indices kept of c stand for
UnescapedAt(c, kept) ==
  [n \in 1..Len(kept) |->
     IF Escaped(c, kept[n]) THEN Unescaped(c[kept[n]]) ELSE c[kept[n]]] \o <<>>

\* the text between the quotes, read: the reader fails on a control
\* character and on an unknown escape; next is the index after the string
ReadContent(c, next) ==
  IF \E k \in 1..Len(c) :
       \/ c[k] \in {"\n", "\t", "\r"}
       \/ Escaped(c, k) /\ Unescaped(c[k]) = ""
  THEN PFail
  ELSE POk(UnescapedAt(c, SelectSeq([k \in 1..Len(c) |-> k] \o <<>>,
                                    LAMBDA k : ~StartsEscape(c, k))),
           next)

ReadUpTo(rest, close, i) ==
  IF close > Len(rest) THEN PFail
  ELSE ReadContent(SubSeq(rest, 1, close - 1), i + close)

ReadFrom(rest, i) == ReadUpTo(rest, ClosingQuote(rest), i)

\* the characters of a string from index i on, up to its closing quote
ReadString(s, i) == ReadFrom(SubSeq(s, i, Len(s)), i)

\* the text of a string whose opening quote is at i
ParseString(s, i) == ReadString(s, i + 1)

\* index after the run of digits that starts at i
NotDigit(c) == ~IsDigit(c)
DigitsEnd(s, i) == FirstWhere(s, i, NotDigit)

RECURSIVE DecimalValue(_)
DecimalValue(ds) ==
  IF ds = <<>> THEN 0
  ELSE 10 * DecimalValue(SubSeq(ds, 1, Len(ds) - 1)) + DigitVal(ds[Len(ds)])

NumberUpTo(s, i, e) == POk(JNum(DecimalValue(SubSeq(s, i, e - 1))), e)

\* a number whose first digit is at i: a leading 0 ends the number
ParseNumber(s, i) ==
  IF s[i] = "0"
  THEN IF i + 1 <= Len(s) /\ IsDigit(s[i + 1]) THEN PFail ELSE POk(JNum(0), i + 1)
  ELSE NumberUpTo(s, i, DigitsEnd(s, i))

StringValue(str) == IF str.ok THEN POk(JStr(str.val), str.next) ELSE PFail

RECURSIVE ParseValue(_, _), ParseElems(_, _, _), ParseMembers(_, _, _)

\* after an element's comma, at k: a closing bracket may not follow
ElemsAfterComma(s, k, got) ==
  IF k <= Len(s) /\ s[k] = "]" THEN PFail ELSE ParseElems(s, k, got)

\* after an element, at j: the end of the array or a comma
ElemsNext(s, j, got) ==
  IF j > Len(s) THEN PFail
  ELSE IF s[j] = "]" THEN POk(JArr(got), j + 1)
  ELSE IF s[j] = "," THEN ElemsAfterComma(s, SkipWs(s, j + 1), got)
  ELSE PFail

ElemRead(s, acc, r) ==
  IF ~r.ok THEN PFail ELSE ElemsNext(s, SkipWs(s, r.next), Append(acc, r.val))

\* the elements of an array from index i on, acc holds those already read
ParseElems(s, i, acc) == ElemRead(s, acc, ParseValue(s, i))

\* after a member, at j: the end of the object or a comma
MembersNext(s, j, got) ==
  IF j > Len(s) THEN PFail
  ELSE IF s[j] = "}" THEN POk(JObj(got), j + 1)
  ELSE IF s[j] = "," THEN ParseMembers(s, SkipWs(s, j + 1), got)
  ELSE PFail

MemberValue(s, acc, k, r) ==
  IF ~r.ok THEN PFail
  ELSE MembersNext(s, SkipWs(s, r.next), MapInsert(acc, k, r.val))

MemberColon(s, acc, k, c) ==
  IF c > Len(s) \/ s[c] # ":" THEN PFail
  ELSE MemberValue(s, acc, k, ParseValue(s, c + 1))

MemberKey(s, acc, key) ==
  IF ~key.ok THEN PFail ELSE MemberColon(s, acc, key.val, SkipWs(s, key.next))

\* the members of an object from index i on (i is past white space)
ParseMembers(s, i, acc) ==
  IF i > Len(s) \/ s[i] # "\"" THEN PFail
  ELSE MemberKey(s, acc, ParseString(s, i))

\* an array whose first element, or closing bracket, is at j
ParseArray(s, j) ==
  IF j <= Len(s) /\ s[j] = "]" THEN POk(JArr(<<>>), j + 1)
  ELSE ParseElems(s, j, <<>>)

\* an object whose first member, or closing brace, is at j
ParseObject(s, j) ==
  IF j <= Len(s) /\ s[j] = "}" THEN POk(JObj(EmptyMap), j + 1)
  ELSE ParseMembers(s, j, EmptyMap)

\* the value whose first character is at i
ParseValueAt(s, i) ==
  IF i > Len(s) THEN PFail
  ELSE IF s[i] = "t"
       THEN IF Matches(s, i, <<"t", "r", "u", "e">>)
            THEN POk(JBool(TRUE), i + 4) ELSE PFail
  ELSE IF s[i] = "f"
       THEN IF Matches(s, i, <<"f", "a", "l", "s", "e">>)
            THEN POk(JBool(FALSE), i + 5) ELSE PFail
  ELSE IF s[i] = "n"
       THEN IF Matches(s, i, <<"n", "u", "l", "l">>)
            THEN POk(JNull, i + 4) ELSE PFail
  ELSE IF s[i] = "\"" THEN StringValue(ParseString(s, i))
  ELSE IF IsDigit(s[i]) THEN ParseNumber(s, i)
  ELSE IF s[i] = "[" THEN ParseArray(s, SkipWs(s, i + 1))
  ELSE IF s[i] = "{" THEN ParseObject(s, SkipWs(s, i + 1))
  ELSE PFail

ParseValue(s, i0) == ParseValueAt(s, SkipWs(s, i0))

\* after the value only white space may follow
EndOfText(s, r) ==
  IF r.ok /\ SkipWs(s, r.next) > Len(s) THEN Some(r.val) ELSE None

\* serde_json::from_str: one value, then only white space
FromStr(s) == EndOfText(s, ParseValue(s, 1))

(***************************************************************************)
(* Result<T, CliError> and the CliError variants of src/src/error.rs.  A   *)
(* message is the text that format! builds; the text of a library error    *)
(* ({error}) is kept as a placeholder.                                     *)
(***************************************************************************)
Ok(v) == [ok |-> TRUE, val |-> v]
Err(e) == [ok |-> FALSE, err |-> e]

InvalidInput(message) == [kind |-> "InvalidInput", message |-> message]
Transport(message) == [kind |-> "Transport", message |-> message]
ResponseParse(message) == [kind |-> "ResponseParse", message |-> message]
Api(status, message) == [kind |-> "Api", status |-> status, message |-> message]
MissingApiKey == [kind |-> "MissingApiKey"]
InvalidBaseUrl(url) == [kind |-> "InvalidBaseUrl", url |-> url]

(***************************************************************************)
(* --set KEY=VALUE entries.                                                *)
(***************************************************************************)
\* index of the first '=' of the entry, 0 when there is none
IsEquals(c) == c = "="
\* an index found by FirstWhere, 0 when it found none
Found(s, at) == IF at > Len(s) THEN 0 ELSE at
FindEquals(s, i) == Found(s, FirstWhere(s, i, IsEquals))

\* the texts before and after index at of entry, None when at is 0
SplitAt(entry, at) ==
  IF at = 0 THEN None
  ELSE Some(<<SubSeq(entry, 1, at - 1), SubSeq(entry, at + 1, Len(entry))>>)

\* the split as str::rsplit_once('=') would make it, at the last '='
rsplit_once(entry) ==
  SplitAt(entry, LastWhere(entry, Len(entry), IsEquals))

\* str::split_once('=')
split_once(entry) == SplitAt(entry, FindEquals(entry, 1))

\* parse_set_value as it would be if every value were kept as text
parse_set_value_as_text(raw_value) == JStr(raw_value)

\* Result::unwrap_or_else: the value of opt, or else fallback
UnwrapOr(opt, fallback) == IF IsSome(opt) THEN opt.val ELSE fallback

parse_set_value(raw_value) == UnwrapOr(FromStr(raw_value), JStr(raw_value))

parse_set_entry(entry) ==
  LET Entry(key, raw_value) ==
        IF key = <<>>
        THEN Err(InvalidInput(T("Invalid --set value '") \o entry
                              \o T("': key cannot be empty.")))
        ELSE Ok(<<key, parse_set_value(Trim(raw_value))>>)
      Split(split) ==
        IF IsNone(split)
        THEN Err(InvalidInput(T("Invalid --set value '") \o entry
                              \o T("'. Expected KEY=VALUE.")))
        ELSE Entry(Trim(split.val[1]), split.val[2])
  IN Split(split_once(entry))

\* the loop of parse_set_entries from entry i on, updates holds the map so far
RECURSIVE parse_set_entries_from(_, _, _)
parse_set_entries_from(entries, i, updates) ==
  LET Inserted(r) ==
        IF ~r.ok THEN r
        ELSE parse_set_entries_from(entries, i + 1,
                                    MapInsert(updates, r.val[1], r.val[2]))
  IN IF i > Len(entries) THEN Ok(updates)
     ELSE Inserted(parse_set_entry(entries[i]))

parse_set_entries(entries) == parse_set_entries_from(entries, 1, EmptyMap)

\* every key of updates is inserted into target
\* merge_object_fields as it would be if two colliding objects were merged
\* key by key instead of the update replacing the target's value
merge_object_fields_deep(target, updates) ==
  [k \in DOMAIN target \cup DOMAIN updates |->
     IF k \notin DOMAIN updates THEN target[k]
     ELSE IF k \in DOMAIN target /\ target[k].t = "obj" /\ updates[k].t = "obj"
     THEN JObj([f \in DOMAIN target[k].o \cup DOMAIN updates[k].o |->
                  IF f \in DOMAIN updates[k].o THEN updates[k].o[f]
                  ELSE target[k].o[f]])
     ELSE updates[k]]

merge_object_fields(target, updates) ==
  [k \in DOMAIN target \cup DOMAIN updates |->
     IF k \in DOMAIN updates THEN updates[k] ELSE target[k]]

parse_json_object_argument(raw_json0, flag_name) ==
  LET Object(parsed) ==
        IF IsNone(parsed)
        THEN Err(InvalidInput(T("Invalid ") \o T(flag_name)
                              \o T(" JSON: {error}")))
        ELSE IF parsed.val.t # "obj"
        THEN Err(InvalidInput(T("Invalid ") \o T(flag_name)
                              \o T(" value: expected a JSON object.")))
        ELSE Ok(parsed.val.o)
      Trimmed(raw_json) ==
        IF raw_json = <<>>
        THEN Err(InvalidInput(T("Invalid ") \o T(flag_name)
                              \o T(" value: it cannot be empty.")))
        ELSE Object(FromStr(raw_json))
  IN Trimmed(Trim(raw_json0))

(***************************************************************************)
(* Task (src/src/reclaim_api.rs): the modelled fields and the flattened    *)
(* map of all other fields.                                                *)
(***************************************************************************)
TaskKnownKeys ==
  {T("id"), T("title"), T("status"), T("due"), T("priority"), T("notes"),
   T("deleted")}

\* an Option<String> field read from a JSON object: absent and null are None
OptStringField(o, k) ==
  IF k \notin DOMAIN o \/ o[k].t = "null" THEN Ok(None)
  ELSE IF o[k].t = "str" THEN Ok(Some(o[k].s))
  ELSE Err("invalid type")

\* Deserialize for Task
DecodeTask(v) ==
  IF v.t # "obj" THEN Err("invalid type")
  ELSE LET o == v.o
           status == OptStringField(o, T("status"))
           due == OptStringField(o, T("due"))
           priority == OptStringField(o, T("priority"))
           notes == OptStringField(o, T("notes"))
       IN IF T("id") \notin DOMAIN o \/ o[T("id")].t # "num" THEN Err("id")
          ELSE IF T("title") \notin DOMAIN o \/ o[T("title")].t # "str"
               THEN Err("title")
          ELSE IF ~status.ok \/ ~due.ok \/ ~priority.ok \/ ~notes.ok
               THEN Err("invalid type")
          ELSE IF T("deleted") \in DOMAIN o /\ o[T("deleted")].t # "bool"
               THEN Err("deleted")
          ELSE Ok([id |-> o[T("id")].n,
                   title |-> o[T("title")].s,
                   status |-> status.val,
                   due |-> due.val,
                   priority |-> priority.val,
                   notes |-> notes.val,
                   deleted |-> IF T("deleted") \in DOMAIN o
                               THEN o[T("deleted")].b ELSE FALSE,
                   extra |-> [k \in DOMAIN o \ TaskKnownKeys |-> o[k]]])

OptStringValue(opt) == IF IsSome(opt) THEN JStr(opt.val) ELSE JNull

\* Serialize for Task as it would be without #[serde(flatten)] on extra: only
\* the named fields are written
TaskToValueWithoutExtra(task) ==
  JObj([k \in TaskKnownKeys |->
          IF k = T("id") THEN JNum(task.id)
          ELSE IF k = T("title") THEN JStr(task.title)
          ELSE IF k = T("status") THEN OptStringValue(task.status)
          ELSE IF k = T("due") THEN OptStringValue(task.due)
          ELSE IF k = T("priority") THEN OptStringValue(task.priority)
          ELSE IF k = T("notes") THEN OptStringValue(task.notes)
          ELSE JBool(task.deleted)])

\* Serialize for Task (serde_json::to_value): an absent Option is null
TaskToValue(task) ==
  JObj([k \in TaskKnownKeys \cup DOMAIN task.extra |->
          IF k = T("id") THEN JNum(task.id)
          ELSE IF k = T("title") THEN JStr(task.title)
          ELSE IF k = T("status") THEN OptStringValue(task.status)
          ELSE IF k = T("due") THEN OptStringValue(task.due)
          ELSE IF k = T("priority") THEN OptStringValue(task.priority)
          ELSE IF k = T("notes") THEN OptStringValue(task.notes)
          ELSE IF k = T("deleted") THEN JBool(task.deleted)
          ELSE task.extra[k]])

(***************************************************************************)
(* The payload builders of put and patch.                                  *)
(***************************************************************************)
\* build_put_payload reaches api.get_task: no --json, some --set entry
put_fetches_existing(args) == IsNone(args.json) /\ args.set # <<>>

\* the ? operator on a payload, then parse_set_entries and merge_object_fields
merge_set_entries(payload, updates) ==
  IF ~payload.ok THEN payload
  ELSE IF ~updates.ok THEN updates
  ELSE Ok(merge_object_fields(payload.val, updates.val))

\* serde_json::to_value(existing), as an object
existing_json(fetched) ==
  IF ~fetched.ok THEN fetched ELSE Ok(TaskToValue(fetched.val).o)

\* the same if a failed api.get_task were taken for an empty task
existing_json_or_empty(fetched) ==
  IF ~fetched.ok THEN Ok(EmptyMap) ELSE Ok(TaskToValue(fetched.val).o)

AsObject(merged) == IF ~merged.ok THEN merged ELSE Ok(JObj(merged.val))

\* build_put_payload as it would be if a failed api.get_task were taken for an
\* empty task instead of being returned
build_put_payload_ignoring_fetch_error(args, fetched) ==
  IF IsNone(args.json) /\ args.set = <<>>
  THEN Err(InvalidInput(
         T("PUT requires update data. Pass --json and/or one or more --set entries.")))
  ELSE AsObject(merge_set_entries(
         IF IsSome(args.json)
         THEN parse_json_object_argument(args.json.val, "--json")
         ELSE existing_json_or_empty(fetched),
         parse_set_entries(args.set)))

\* build_put_payload; fetched is the result of api.get_task(args.task_id),
\* which is awaited only when --json is absent
build_put_payload(args, fetched) ==
  IF IsNone(args.json) /\ args.set = <<>>
  THEN Err(InvalidInput(
         T("PUT requires update data. Pass --json and/or one or more --set entries.")))
  ELSE AsObject(merge_set_entries(
         IF IsSome(args.json)
         THEN parse_json_object_argument(args.json.val, "--json")
         ELSE existing_json(fetched),
         parse_set_entries(args.set)))

\* the --json object of patch, an empty map without --json
patch_json(args) ==
  IF IsSome(args.json) THEN parse_json_object_argument(args.json.val, "--json")
  ELSE Ok(EmptyMap)

\* build_patch_payload as it would be without its check for an empty object
build_patch_payload_unchecked(args) ==
  AsObject(merge_set_entries(patch_json(args), parse_set_entries(args.set)))

\* the check of build_patch_payload on the merged payload
NonEmptyPayload(merged) ==
  IF ~merged.ok THEN merged
  ELSE IF DOMAIN merged.val = {}
  THEN Err(InvalidInput(T("PATCH requires at least one field update.")))
  ELSE Ok(JObj(merged.val))

build_patch_payload(args) ==
  NonEmptyPayload(merge_set_entries(patch_json(args), parse_set_entries(args.set)))

(***************************************************************************)
(* The event action builders.                                              *)
(***************************************************************************)
\* opt.as_deref().map(str::trim).filter(|value| !value.is_empty())
TrimmedNonEmpty(opt) ==
  IF IsSome(opt) /\ Trim(opt.val) # <<>> THEN Some(Trim(opt.val)) ELSE None

\* action.insert(key, Value::String(..)) when the optional text is present
InsertOpt(m, k, opt) == IF IsSome(opt) THEN MapInsert(m, k, JStr(opt.val)) ELSE m

\* json!({"type": "FixedDateTimeRange", "start": start, "end": end})
DateRange(start, end) ==
  JObj((T("type") :> JStr(T("FixedDateTimeRange")))
       @@ (T("start") :> JStr(start)) @@ (T("end") :> JStr(end)))

\* the attendees with a non-empty trimmed email, as {"email": ..} objects
RECURSIVE AttendeeValues(_)
AttendeeValues(attendees) ==
  IF attendees = <<>> THEN <<>>
  ELSE LET email == Trim(Head(attendees))
           rest == AttendeeValues(Tail(attendees))
       IN IF email = <<>> THEN rest
          ELSE <<JObj(T("email") :> JStr(email))>> \o rest

PolicyIdError ==
  Err(InvalidInput(T("Invalid --policy-id value: it cannot be empty.")))

\* the envelope as it would be if the action were not put in an array
EnvelopeWithoutArray(action) == JObj(T("actionsTaken") :> JObj(action))

\* json!({ "actionsTaken": [Value::Object(action)] })
Envelope(action) == JObj(T("actionsTaken") :> JArr(<<JObj(action)>>))

\* the action of build_event_create_request before --json and --set
event_create_flag_fields(args) ==
  LET base ==
        (T("type") :> JStr(T("AddEventAction")))
        @@ (T("hash") :> JStr(<<>>))
        @@ (T("policyId") :> JStr(Trim(args.policy_id)))
        @@ (T("eventKey") :> JStr(<<>>))
        @@ (T("calendarId") :> JNum(args.calendar_id))
        @@ (T("title") :> JStr(args.title))
        @@ (T("dateRange") :> DateRange(Trim(args.start), Trim(args.end)))
        @@ (T("guestsCanModify") :> JBool(args.guests_can_modify))
        @@ (T("guestsCanInviteOthers") :> JBool(args.guests_can_invite_others))
        @@ (T("guestsCanSeeOtherGuests") :> JBool(args.guests_can_see_other_guests))
        @@ (T("attendees") :> JArr(AttendeeValues(args.attendees)))
      a1 == InsertOpt(base, T("description"), TrimmedNonEmpty(args.description))
      a2 == InsertOpt(a1, T("location"), TrimmedNonEmpty(args.location))
      a3 == InsertOpt(a2, T("priority"), args.priority)
      a4 == InsertOpt(a3, T("visibility"), args.visibility)
  IN InsertOpt(a4, T("transparency"), args.transparency)

\* the fields of action, then those of the --json object, then those of the
\* --set entries
merge_stages(action, blob, updates) ==
  IF ~blob.ok THEN blob
  ELSE IF ~updates.ok THEN updates
  ELSE Ok(merge_object_fields(merge_object_fields(action, blob.val), updates.val))

\* the --json object, if any, then the --set entries, merged into action
merge_json_and_set(action, args) ==
  merge_stages(action, patch_json(args), parse_set_entries(args.set))

\* Ok(json!({ "actionsTaken": [..] })) of a built action
Enveloped(action) == IF ~action.ok THEN action ELSE Ok(Envelope(action.val))

build_event_create_request(args) ==
  IF Trim(args.start) = <<>> \/ Trim(args.end) = <<>>
  THEN Err(InvalidInput(
         T("Invalid event time range: --start and --end are required.")))
  ELSE IF Trim(args.policy_id) = <<>> THEN PolicyIdError
  ELSE Enveloped(merge_json_and_set(event_create_flag_fields(args), args))

\* the action of build_event_update_request before --json and --set
event_update_flag_fields(args) ==
  LET base ==
        (T("type") :> JStr(T("UpdateEventAction")))
        @@ (T("hash") :> JStr(<<>>))
        @@ (T("policyId") :> JStr(Trim(args.policy_id)))
        @@ (T("calendarId") :> JNum(args.calendar_id))
        @@ (T("eventId") :> JStr(args.event_id))
      a0 == InsertOpt(base, T("title"), TrimmedNonEmpty(args.title))
      a1 == InsertOpt(a0, T("description"), TrimmedNonEmpty(args.description))
      a2 == InsertOpt(a1, T("location"), TrimmedNonEmpty(args.location))
      a3 == InsertOpt(a2, T("priority"), args.priority)
      a4 == InsertOpt(a3, T("visibility"), args.visibility)
      a5 == InsertOpt(a4, T("transparency"), args.transparency)
  IN IF IsSome(args.start) /\ IsSome(args.end)
     THEN MapInsert(a5, T("dateRange"),
                    DateRange(Trim(args.start.val), Trim(args.end.val)))
     ELSE a5

\* the identity keys as they would be if eventId were not among them
EventIdentityKeysWithoutEventId ==
  {T("type"), T("hash"), T("policyId"), T("calendarId")}

EventIdentityKeys ==
  {T("type"), T("hash"), T("policyId"), T("calendarId"), T("eventId")}

\* the has_update_fields check of build_event_update_request
WithUpdateFields(action) ==
  IF ~action.ok THEN action
  ELSE IF DOMAIN action.val \subseteq EventIdentityKeys
  THEN Err(InvalidInput(T("Event update requires at least one field change.")))
  ELSE Ok(Envelope(action.val))

build_event_update_request(args) ==
  IF Trim(args.policy_id) = <<>> THEN PolicyIdError
  ELSE IF IsSome(args.start) # IsSome(args.end)
  THEN Err(InvalidInput(
         T("Invalid date range update: --start and --end must be passed together.")))
  ELSE IF /\ IsSome(args.start) /\ IsSome(args.end)
          /\ (Trim(args.start.val) = <<>> \/ Trim(args.end.val) = <<>>)
  THEN Err(InvalidInput(
         T("Invalid date range update: --start and --end cannot be empty.")))
  ELSE WithUpdateFields(merge_json_and_set(event_update_flag_fields(args), args))

\* u64 Display: the decimal digits of n
RECURSIVE ToDecimal(_)
ToDecimal(n) ==
  IF n < 10 THEN <<Digits[n + 1]>>
  ELSE ToDecimal(n \div 10) \o <<Digits[(n % 10) + 1]>>

build_event_delete_request(args) ==
  IF Trim(args.policy_id) = <<>> THEN PolicyIdError
  ELSE LET base ==
             (T("type") :> JStr(T("CancelEventAction")))
             @@ (T("hash") :> JStr(<<>>))
             @@ (T("policyId") :> JStr(Trim(args.policy_id)))
             @@ (T("eventKey") :>
                   JStr(ToDecimal(args.calendar_id) \o T("/") \o args.event_id))
       IN Ok(Envelope(InsertOpt(base, T("notificationMessage"),
                                TrimmedNonEmpty(args.message))))

\* the has_actions check as it would be if an empty array were accepted
WithActionsOrNone(request) ==
  IF ~request.ok THEN request
  ELSE IF ~(/\ T("actionsTaken") \in DOMAIN request.val
            /\ request.val[T("actionsTaken")].t = "arr")
  THEN Err(InvalidInput(
         T("Invalid --json request: actionsTaken is required and must be a non-empty array.")))
  ELSE Ok(JObj(request.val))

\* the has_actions check of build_events_apply_request
WithActions(request) ==
  IF ~request.ok THEN request
  ELSE IF ~(/\ T("actionsTaken") \in DOMAIN request.val
            /\ request.val[T("actionsTaken")].t = "arr"
            /\ request.val[T("actionsTaken")].a # <<>>)
  THEN Err(InvalidInput(
         T("Invalid --json request: actionsTaken is required and must be a non-empty array.")))
  ELSE Ok(JObj(request.val))

build_events_apply_request(args) ==
  WithActions(parse_json_object_argument(args.json, "--json"))

(***************************************************************************)
(* The create command: validation and the CreateTaskRequest.               *)
(***************************************************************************)
\* a chunk bound is given and no total, as it would be if only
\* --min-chunk-size were looked at
bounds_without_total_min_only(args) ==
  IsSome(args.min_chunk_size) /\ IsNone(args.time_chunks_required)

\* a chunk bound is given and no total
bounds_without_total(args) ==
  /\ (IsSome(args.min_chunk_size) \/ IsSome(args.max_chunk_size))
  /\ IsNone(args.time_chunks_required)

\* the chunk bounds of the create command after defaulting
resolved_min_chunk_size(args) ==
  IF IsSome(args.time_chunks_required) /\ IsNone(args.min_chunk_size)
  THEN Some(1) ELSE args.min_chunk_size

\* the upper bound as it would be if it were never defaulted
resolved_max_chunk_size_as_given(args) == args.max_chunk_size

resolved_max_chunk_size(args) ==
  IF IsSome(args.time_chunks_required) /\ IsNone(args.max_chunk_size)
  THEN args.time_chunks_required ELSE args.max_chunk_size

\* the validation of Command::Create and the request it builds
build_create_task_request(args) ==
  LET min == resolved_min_chunk_size(args)
      max == resolved_max_chunk_size(args)
      total == args.time_chunks_required
  IN IF IsSome(args.due) /\ Trim(args.due.val) = <<>>
     THEN Err(InvalidInput(T("Invalid --due value: it cannot be empty.")))
     ELSE IF bounds_without_total(args)
     THEN Err(InvalidInput(
            T("Invalid chunk options: --min-chunk-size/--max-chunk-size require --time-chunks-required.")))
     ELSE IF IsSome(total) /\ min.val > total.val
     THEN Err(InvalidInput(
            T("Invalid --min-chunk-size value: ") \o ToDecimal(min.val)
            \o T(" exceeds --time-chunks-required (") \o ToDecimal(total.val)
            \o T(").")))
     ELSE IF IsSome(total) /\ IsSome(max) /\ max.val > total.val
     THEN Err(InvalidInput(
            T("Invalid --max-chunk-size value: ") \o ToDecimal(max.val)
            \o T(" exceeds --time-chunks-required (") \o ToDecimal(total.val)
            \o T(").")))
     ELSE IF IsSome(min) /\ IsSome(max) /\ min.val > max.val
     THEN Err(InvalidInput(
            T("Invalid chunk bounds: --min-chunk-size (") \o ToDecimal(min.val)
            \o T(") cannot exceed --max-chunk-size (") \o ToDecimal(max.val)
            \o T(").")))
     ELSE Ok([title |-> args.title,
              notes |-> args.notes,
              priority |-> args.priority,
              due |-> args.due,
              time_chunks_required |-> total,
              event_category |-> Some(args.event_category),
              min_chunk_size |-> min,
              max_chunk_size |-> max,
              always_private |-> Some(args.always_private)])

InsertOptNum(m, k, opt) == IF IsSome(opt) THEN MapInsert(m, k, JNum(opt.val)) ELSE m
InsertOptBool(m, k, opt) == IF IsSome(opt) THEN MapInsert(m, k, JBool(opt.val)) ELSE m

\* Serialize for CreateTaskRequest: camelCase keys, an absent Option is skipped
CreateTaskRequestToValue(r) ==
  LET m0 == T("title") :> JStr(r.title)
      m1 == InsertOpt(m0, T("notes"), r.notes)
      m2 == InsertOpt(m1, T("priority"), r.priority)
      m3 == InsertOpt(m2, T("due"), r.due)
      m4 == InsertOptNum(m3, T("timeChunksRequired"), r.time_chunks_required)
      m5 == InsertOptNum(m4, T("minChunkSize"), r.min_chunk_size)
      m6 == InsertOptNum(m5, T("maxChunkSize"), r.max_chunk_size)
      m7 == InsertOpt(m6, T("eventCategory"), r.event_category)
  IN InsertOptBool(m7, T("alwaysPrivate"), r.always_private)

(***************************************************************************)
(* serde_json::to_string and to_string_pretty.                             *)
(***************************************************************************)
\* the text of a string value between its quotes
EscapeChar(c) ==
  IF c = "\"" THEN <<"\\", "\"">>
  ELSE IF c = "\\" THEN <<"\\", "\\">>
  ELSE IF c = "\n" THEN <<"\\", "n">>
  ELSE IF c = "\t" THEN <<"\\", "t">>
  ELSE IF c = "\r" THEN <<"\\", "r">>
  ELSE <<c>>

Escape(s) ==
  IF \A i \in 1..Len(s) : s[i] \notin {"\"", "\\", "\n", "\t", "\r"} THEN s
  ELSE Flatten([i \in 1..Len(s) |-> EscapeChar(s[i])])

Quoted(s) == <<"\"">> \o Escape(s) \o <<"\"">>

\* parts.join(sep)
Join(parts, sep) ==
  Flatten([i \in 1..(2 * Len(parts) - 1) |->
             IF i % 2 = 1 THEN parts[(i + 1) \div 2] ELSE sep])

\* n levels of the two-space indentation of PrettyFormatter
RECURSIVE Indent(_)
Indent(n) == IF n = 0 THEN <<>> ELSE <<" ", " ">> \o Indent(n - 1)

RECURSIVE to_string(_)
to_string(v) ==
  IF v.t = "null" THEN T("null")
  ELSE IF v.t = "bool" THEN (IF v.b THEN T("true") ELSE T("false"))
  ELSE IF v.t = "num" THEN ToDecimal(v.n)
  ELSE IF v.t = "str" THEN Quoted(v.s)
  ELSE IF v.t = "arr"
       THEN <<"[">> \o Join([i \in 1..Len(v.a) |-> to_string(v.a[i])], <<",">>)
            \o <<"]">>
  ELSE LET keys == SortedKeys(DOMAIN v.o)
       IN <<"{">>
          \o Join([i \in 1..Len(keys) |->
                     Quoted(keys[i]) \o <<":">> \o to_string(v.o[keys[i]])],
                  <<",">>)
          \o <<"}">>

RECURSIVE to_string_pretty_at(_, _)
to_string_pretty_at(v, level) ==
  IF v.t = "arr" /\ v.a # <<>>
  THEN <<"[", "\n">>
       \o Join([i \in 1..Len(v.a) |->
                  Indent(level + 1) \o to_string_pretty_at(v.a[i], level + 1)],
               <<",", "\n">>)
       \o <<"\n">> \o Indent(level) \o <<"]">>
  ELSE IF v.t = "obj" /\ DOMAIN v.o # {}
  THEN LET keys == SortedKeys(DOMAIN v.o)
       IN <<"{", "\n">>
          \o Join([i \in 1..Len(keys) |->
                     Indent(level + 1) \o Quoted(keys[i]) \o <<":", " ">>
                     \o to_string_pretty_at(v.o[keys[i]], level + 1)],
                  <<",", "\n">>)
          \o <<"\n">> \o Indent(level) \o <<"}">>
  ELSE to_string(v)

to_string_pretty(v) == to_string_pretty_at(v, 0)

(***************************************************************************)
(* Debug text of src/src/reclaim_api.rs.                                   *)
(***************************************************************************)
DEBUG_BODY_LIMIT == 8192
DEBUG_SUMMARY_LIMIT == 512

TruncationMarker == T("... <truncated>")

\* char::len_utf8 for the characters of the texts truncated
Utf8Width(c) == IF c = "é" THEN 2 ELSE IF c = "€" THEN 3 ELSE 1

IsTwoBytes(c) == Utf8Width(c) = 2
IsThreeBytes(c) == Utf8Width(c) = 3

\* str::len: the number of bytes of the text
Utf8Len(text) ==
  Len(text) + Len(SelectSeq(text, IsTwoBytes)) + 2 * Len(SelectSeq(text, IsThreeBytes))

\* truncate_debug_text as it would be if it counted bytes: the longest
\* prefix of at most max_chars bytes
truncate_debug_text_bytes(input, max_chars) ==
  IF Utf8Len(input) > max_chars
  THEN SubSeq(input, 1,
              CHOOSE n \in 0..Len(input) :
                /\ Utf8Len(SubSeq(input, 1, n)) <= max_chars
                /\ \A m \in (n + 1)..Len(input) :
                     Utf8Len(SubSeq(input, 1, m)) > max_chars)
       \o TruncationMarker
  ELSE input

truncate_debug_text(input, max_chars) ==
  IF Len(input) > max_chars
  THEN SubSeq(input, 1, max_chars) \o TruncationMarker
  ELSE input

\* to_string_pretty of the parsed text, the text itself when it did not parse
PrettyOr(json, input) == IF IsSome(json) THEN to_string_pretty(json.val) ELSE input

pretty_json_or_raw(input) == PrettyOr(FromStr(input), input)

\* Some(text) of a text that is not empty
NonEmpty(text) == IF text # <<>> THEN Some(text) ELSE None

\* capture_request_debug: method, URL and the trimmed non-empty body text of
\* a request (every request of this client can be cloned and built)
capture_request_debug(request) ==
  [method |-> request.method,
   url |-> request.url,
   body |-> IF IsSome(request.body)
            THEN NonEmpty(Trim(to_string(request.body.val)))
            ELSE None]

RequestLine(request_debug) ==
  T("Request: ") \o T(request_debug.method) \o <<" ">> \o request_debug.url

format_request_context(request_debug) ==
  LET lines ==
        <<RequestLine(request_debug)>>
        \o (IF IsSome(request_debug.body)
            THEN <<T("Request payload: ")
                   \o truncate_debug_text(pretty_json_or_raw(request_debug.body.val),
                                          DEBUG_SUMMARY_LIMIT)>>
            ELSE <<>>)
  IN <<"\n">> \o Join(lines, <<"\n">>)

\* the ways request.send() fails, as reqwest::Error reports them
SendFailures == {"timeout", "connect", "other"}

map_transport_error(error, request_debug) ==
  Transport(
    (IF error = "timeout"
     THEN T("Request to Reclaim timed out before receiving a response. Source error: {error}")
     ELSE IF error = "connect"
     THEN T("Could not connect to the Reclaim API. Source error: {error}")
     ELSE T("Request failed before receiving a usable API response. Source error: {error}"))
    \o format_request_context(request_debug))

\* the error of a response body that could not be read
body_read_error(request_debug) ==
  Transport(T("Could not read Reclaim API response body: {error}") \o <<"\n">>
            \o format_request_context(request_debug))

\* the header names as they would be if checked in the opposite order
RequestIdHeadersReversed ==
  <<"x-amzn-trace-id", "x-correlation-id", "x-request-id">>

RequestIdHeaders == <<"x-request-id", "x-correlation-id", "x-amzn-trace-id">>

\* headers maps a header name to [visible, text]: to_str() fails on a value
\* that is not visible ASCII
RECURSIVE extract_request_id_from(_, _)
extract_request_id_from(headers, i) ==
  IF i > Len(RequestIdHeaders) THEN None
  ELSE LET name == RequestIdHeaders[i]
           value == IF name \in DOMAIN headers /\ headers[name].visible
                    THEN Trim(headers[name].text) ELSE <<>>
       IN IF value # <<>> THEN Some(value)
          ELSE extract_request_id_from(headers, i + 1)

extract_request_id(headers) == extract_request_id_from(headers, 1)

\* item.as_str(), else item.get("message").as_str()
ItemMessage(item) ==
  IF item.t = "str" THEN Some(item.s)
  ELSE LET m == JsonGet(item, T("message"))
       IN IF IsSome(m) /\ m.val.t = "str" THEN Some(m.val.s) ELSE None

\* the message of the first element of the array that has one
RECURSIVE FirstItemMessage(_, _)
FirstItemMessage(array, i) ==
  IF i > Len(array) THEN None
  ELSE IF IsSome(ItemMessage(array[i])) THEN ItemMessage(array[i])
  ELSE FirstItemMessage(array, i + 1)

\* the loop over the fields of an errors object, in the order of the map
RECURSIVE FirstFieldMessage(_, _, _)
FirstFieldMessage(object, keys, i) ==
  IF i > Len(keys) THEN None
  ELSE LET field == keys[i]
           value == object[field]
           found == IF value.t = "str" THEN Some(value.s)
                    ELSE IF value.t = "arr" THEN FirstItemMessage(value.a, 1)
                    ELSE None
       IN IF IsSome(found) THEN Some(field \o T(": ") \o found.val)
          ELSE FirstFieldMessage(object, keys, i + 1)

extract_errors_message(errors) ==
  IF errors.t = "str" THEN Some(errors.s)
  ELSE IF errors.t = "arr" THEN FirstItemMessage(errors.a, 1)
  ELSE IF errors.t = "obj"
       THEN FirstFieldMessage(errors.o, SortedKeys(DOMAIN errors.o), 1)
  ELSE None

\* the fields as they would be if detail were checked first
MessageFieldsDetailFirst == <<T("detail"), T("message"), T("title"), T("error")>>

MessageFields == <<T("message"), T("title"), T("error"), T("detail")>>

\* the loop over MessageFields from field i on
RECURSIVE FirstMessageField(_, _)
FirstMessageField(value, i) ==
  IF i > Len(MessageFields) THEN None
  ELSE LET entry == JsonGet(value, MessageFields[i])
       IN IF IsSome(entry) /\ entry.val.t = "str" /\ Trim(entry.val.s) # <<>>
          THEN Some(Trim(entry.val.s))
          ELSE FirstMessageField(value, i + 1)

\* Option::or
OrOption(first, second) == IF IsSome(first) THEN first ELSE second

\* the trimmed message when it is not blank
TrimmedMessage(message) ==
  IF IsSome(message) THEN NonEmpty(Trim(message.val)) ELSE None

\* the message of the errors field of value, if any
ErrorsMessage(value) ==
  IF value.t = "obj" /\ T("errors") \in DOMAIN value.o
  THEN TrimmedMessage(extract_errors_message(value.o[T("errors")]))
  ELSE None

extract_api_message(value) ==
  OrOption(FirstMessageField(value, 1), ErrorsMessage(value))

\* Option::and_then(extract_api_message)
AndThenMessage(parsed_json) ==
  IF IsSome(parsed_json) THEN extract_api_message(parsed_json.val) ELSE None

\* Option::unwrap_or
UnwrapOrText(extracted, fallback) ==
  IF IsSome(extracted) THEN extracted.val ELSE fallback

\* the message of parse_api_error: body is the trimmed response body and
\* parsed_json what it parsed to
api_error_message(status, body, parsed_json) ==
  UnwrapOrText(
    AndThenMessage(parsed_json),
    IF body # <<>> THEN truncate_debug_text(body, DEBUG_SUMMARY_LIMIT)
    ELSE T("Request failed with HTTP ") \o ToDecimal(status) \o T("."))

\* serde_json::from_str of the trimmed response body, None for an empty one
ParsedBody(body) == IF body = <<>> THEN None ELSE FromStr(body)

api_error_summary(status, response_body) ==
  api_error_message(status, Trim(response_body), ParsedBody(Trim(response_body)))

\* the request-id line of parse_api_error
RequestIdLine(request_id) ==
  IF IsSome(request_id) THEN <<T("Reclaim request id: ") \o request_id.val>>
  ELSE <<>>

\* the lines of parse_api_error, before lines.join("\n")
ApiErrorLines(status, body, parsed_json, response_url, response_headers, request_debug) ==
     <<RequestLine(request_debug),
       T("API message: ") \o api_error_message(status, body, parsed_json)>>
     \o (IF request_debug.url # response_url
         THEN <<T("Response URL: ") \o response_url>> ELSE <<>>)
     \o RequestIdLine(extract_request_id(response_headers))
     \o (IF IsSome(parsed_json)
         THEN <<T("Raw response JSON: ")
                \o truncate_debug_text(
                     pretty_json_or_raw(to_string(parsed_json.val)),
                     DEBUG_BODY_LIMIT)>>
         ELSE IF body = <<>> THEN <<T("Raw response body: <empty>")>>
         ELSE <<T("Raw response body: ")
                \o truncate_debug_text(body, DEBUG_BODY_LIMIT)>>)
     \o (IF IsSome(request_debug.body)
         THEN <<T("Request payload: ")
                \o truncate_debug_text(pretty_json_or_raw(request_debug.body.val),
                                       DEBUG_BODY_LIMIT)>>
         ELSE <<>>)

api_error_lines(status, response_body, response_url, response_headers, request_debug) ==
  ApiErrorLines(status, Trim(response_body), ParsedBody(Trim(response_body)),
                response_url, response_headers, request_debug)

parse_api_error(status, response_body, response_url, response_headers, request_debug) ==
  Api(status,
      Join(api_error_lines(status, response_body, response_url,
                           response_headers, request_debug),
           <<"\n">>))

\* Display for CliError (src/src/error.rs)
Display(error) ==
  IF error.kind = "MissingApiKey" THEN T("Missing Reclaim API key.")
  ELSE IF error.kind = "InvalidBaseUrl" THEN T("Invalid base URL: ") \o error.url
  ELSE IF error.kind = "Api"
       THEN T("Reclaim API returned HTTP ") \o ToDecimal(error.status)
            \o T(": ") \o error.message
  ELSE error.message

\* CliError::Output
Output(message) == [kind |-> "Output", message |-> message]

(***************************************************************************)
(* HttpReclaimApi: construction and the requests of its operations.        *)
(***************************************************************************)
\* index of the first '/' at or after i, 0 when there is none
IsSlash(c) == c = "/"
NotSlash(c) == c # "/"
FindSlash(s, i) ==
  LET at == FirstWhere(s, i, IsSlash) IN IF at > Len(s) THEN 0 ELSE at

\* str::trim_end_matches('/')
TrimEndSlashes(s) == SubSeq(s, 1, LastWhere(s, Len(s), NotSlash))

\* str::trim_start_matches('/')
TrimStartSlashes(s) == SubSeq(s, FirstWhere(s, 1, NotSlash), Len(s))

\* Url::parse for an http(s) URL without query or fragment: the origin
\* (scheme and host) and the path, which is "/" when the text has none
ParseUrl(raw) ==
  LET scheme == IF Matches(raw, 1, T("https://")) THEN 8
                ELSE IF Matches(raw, 1, T("http://")) THEN 7
                ELSE 0
      slash == FindSlash(raw, scheme + 1)
      host == IF slash = 0 THEN SubSeq(raw, scheme + 1, Len(raw))
              ELSE SubSeq(raw, scheme + 1, slash - 1)
  IN IF scheme = 0 \/ host = <<>> \/ \E i \in 1..Len(raw) : IsWs(raw[i])
     THEN None
     ELSE Some([origin |-> SubSeq(raw, 1, scheme) \o host,
                path |-> IF slash = 0 THEN <<"/">>
                         ELSE SubSeq(raw, slash, Len(raw))])

\* the rest of normalize_base_url once Url::parse has returned
WithTrailingSlash(url, raw) ==
  IF IsNone(url) THEN Err(InvalidBaseUrl(raw))
  ELSE IF url.val.path[Len(url.val.path)] # "/"
  THEN Ok([url.val EXCEPT !.path = TrimEndSlashes(url.val.path) \o <<"/">>])
  ELSE Ok(url.val)

normalize_base_url(raw) == WithTrailingSlash(ParseUrl(raw), raw)

\* the client of HttpReclaimApi::new for a normalized base URL
NewClient(url, api_key) ==
  IF ~url.ok THEN url ELSE Ok([base_url |-> url.val, api_key |-> api_key])

\* HttpReclaimApi::new as it would be if the key were taken as given
HttpReclaimApi_new_untrimmed(api_key, base_url) ==
  IF IsNone(api_key) \/ api_key.val = <<>> THEN Err(MissingApiKey)
  ELSE NewClient(normalize_base_url(base_url), api_key.val)

\* HttpReclaimApi::new (the timeout and the reqwest client are not modelled)
HttpReclaimApi_new(api_key, base_url) ==
  IF IsNone(api_key) \/ Trim(api_key.val) = <<>> THEN Err(MissingApiKey)
  ELSE NewClient(normalize_base_url(base_url), Trim(api_key.val))

\* the two hexadecimal digits of a byte
HexDigits == T("0123456789ABCDEF")
CodePoint(c) == IF CharRank(c) > 64 THEN CharRank(c) + 32 ELSE CharRank(c) + 31

\* form_urlencoded::byte_serialize, as reqwest's query() applies it
UrlEncodeChar(c) ==
  LET plain == \/ IsDigit(c)
               \/ c \in {"*", "-", ".", "_"}
               \/ (CharRank(c) >= CharRank("A") /\ CharRank(c) <= CharRank("Z"))
               \/ (CharRank(c) >= CharRank("a") /\ CharRank(c) <= CharRank("z"))
  IN IF plain THEN <<c>>
     ELSE IF c = " " THEN <<"+">>
     ELSE <<"%", HexDigits[(CodePoint(c) \div 16) + 1],
            HexDigits[(CodePoint(c) % 16) + 1]>>

UrlEncode(s) == Flatten([i \in 1..Len(s) |-> UrlEncodeChar(s[i])])

\* RequestBuilder::query on a URL: pairs is a sequence of <<name, value>>
WithQuery(url, pairs) ==
  IF pairs = <<>> THEN url
  ELSE url \o <<"?">>
       \o Join([i \in 1..Len(pairs) |->
                  UrlEncode(pairs[i][1]) \o <<"=">> \o UrlEncode(pairs[i][2])],
               <<"&">>)

BoolText(b) == IF b THEN T("true") ELSE T("false")
OptPair(name, opt) == IF IsSome(opt) THEN <<<<T(name), opt.val>>>> ELSE <<>>
OptBoolPair(name, opt) ==
  IF IsSome(opt) THEN <<<<T(name), BoolText(opt.val)>>>> ELSE <<>>

\* HttpReclaimApi::request: op names the operation that sends the request
request(api, op, method, path) ==
  [op |-> op,
   method |-> method,
   url |-> api.base_url.origin \o api.base_url.path \o TrimStartSlashes(path),
   bearer |-> api.api_key,
   body |-> None]

\* RequestBuilder::query on a request
Query(req, pairs) == [req EXCEPT !.url = WithQuery(req.url, pairs)]

\* request_with_notification_key as it would be if every given key were
\* attached as it is
request_with_notification_key_as_given(api, op, method, path, notification_key) ==
  Query(request(api, op, method, path),
        OptPair("notificationKey", notification_key))

request_with_notification_key(api, op, method, path, notification_key) ==
  Query(request(api, op, method, path),
        OptPair("notificationKey", TrimmedNonEmpty(notification_key)))

\* RequestBuilder::json
WithJson(req, value) == [req EXCEPT !.body = Some(value)]

TaskPath(task_id) == T("tasks/") \o ToDecimal(task_id)

list_tasks_request(api) == request(api, "list_tasks", "GET", T("tasks"))

get_task_request(api, task_id) ==
  request(api, "get_task", "GET", TaskPath(task_id))

create_task_request(api, create_request) ==
  WithJson(request(api, "create_task", "POST", T("tasks")),
           JObj(CreateTaskRequestToValue(create_request)))

list_events_request(api, query) ==
  Query(request(api, "list_events", "GET", T("events")),
        [i \in 1..Len(query.calendar_ids) |->
           <<T("calendarIds"), ToDecimal(query.calendar_ids[i])>>]
        \o OptBoolPair("allConnected", query.all_connected)
        \o OptPair("start", TrimmedNonEmpty(query.start))
        \o OptPair("end", TrimmedNonEmpty(query.end))
        \o OptBoolPair("sourceDetails", query.source_details)
        \o OptBoolPair("thin", query.thin))

get_event_request(api, calendar_id, event_id, source_details, thin) ==
  Query(request(api, "get_event", "GET",
                T("events/") \o ToDecimal(calendar_id) \o <<"/">> \o event_id),
        OptBoolPair("sourceDetails", source_details) \o OptBoolPair("thin", thin))

apply_schedule_actions_request(api, value) ==
  WithJson(request(api, "apply_schedule_actions", "POST",
                   T("schedule-actions/apply-actions")),
           value)

put_task_request(api, task_id, value, notification_key) ==
  WithJson(request_with_notification_key(api, "put_task", "PUT",
                                         TaskPath(task_id), notification_key),
           value)

patch_task_request(api, task_id, value, notification_key) ==
  WithJson(request_with_notification_key(api, "patch_task", "PATCH",
                                         TaskPath(task_id), notification_key),
           value)

delete_task_request(api, task_id, notification_key) ==
  request_with_notification_key(api, "delete_task", "DELETE",
                                TaskPath(task_id), notification_key)

(***************************************************************************)
(* The response interpreter: what send_json and send_json_value_or_null    *)
(* return once the response body has been read.                            *)
(***************************************************************************)
\* StatusCode::is_success as it would be with 300 counted as a success
is_success_through_300(status) == status >= 200 /\ status <= 300

\* StatusCode::is_success
is_success(status) == status >= 200 /\ status < 300

\* Deserialize for Vec<Task>
RECURSIVE DecodeTasks(_, _)
DecodeTasks(items, acc) ==
  IF items = <<>> THEN Ok(acc)
  ELSE LET task == DecodeTask(Head(items))
       IN IF ~task.ok THEN task
          ELSE DecodeTasks(Tail(items), Append(acc, task.val))

\* the type T of send_json::<T> for each operation
ResponseShape(op) ==
  IF op \in {"get_task", "create_task", "put_task", "patch_task"} THEN "Task"
  ELSE IF op = "list_tasks" THEN "Vec<Task>"
  ELSE IF op = "list_events" THEN "Vec<Value>"
  ELSE "Value"

\* serde_json::from_str::<T>
DecodeAs(shape, value) ==
  IF IsNone(value) THEN Err("syntax")
  ELSE IF shape = "Task" THEN DecodeTask(value.val)
  ELSE IF shape = "Vec<Task>"
       THEN IF value.val.t = "arr" THEN DecodeTasks(value.val.a, <<>>)
            ELSE Err("invalid type")
  ELSE IF shape = "Vec<Value>"
       THEN IF value.val.t = "arr" THEN Ok(value.val.a) ELSE Err("invalid type")
  ELSE Ok(value.val)

FromStrAs(shape, text) == DecodeAs(shape, FromStr(text))

\* the ResponseParse error of send_json
RawBodyLine(body) ==
  IF body # <<>>
  THEN T("Raw response body: ")
       \o truncate_debug_text(pretty_json_or_raw(body), DEBUG_BODY_LIMIT)
  ELSE T("Raw response body: <empty>")

response_parse_error(response_body, request_debug) ==
  ResponseParse(
    Join(<<T("Reclaim API returned a non-JSON success response: {error}"),
           RequestLine(request_debug),
           RawBodyLine(Trim(response_body))>>,
         <<"\n">>))

\* the map_err of serde_json::from_str in send_json
OrParseError(decoded, response_body, request_debug) ==
  IF decoded.ok THEN decoded
  ELSE Err(response_parse_error(response_body, request_debug))

\* send_json after response.text(): req is the request, resp the status, URL
\* and headers of the response
send_json(req, resp, response_body) ==
  IF is_success(resp.status)
  THEN OrParseError(FromStrAs(ResponseShape(req.op), response_body),
                    response_body, capture_request_debug(req))
  ELSE Err(parse_api_error(resp.status, response_body, resp.url, resp.headers,
                           capture_request_debug(req)))

\* send_json_value_or_null after response.text()
send_json_value_or_null(req, resp, response_body) ==
  IF is_success(resp.status)
  THEN IF Trim(response_body) = <<>> THEN Ok(JNull)
       ELSE OrParseError(FromStrAs("Value", Trim(response_body)),
                         response_body, capture_request_debug(req))
  ELSE Err(parse_api_error(resp.status, response_body, resp.url, resp.headers,
                           capture_request_debug(req)))

\* the interpreter as it would be if delete_task used send_json as the other
\* operations do
interpret_response_strict(req, resp, response_body) ==
  send_json(req, resp, response_body)

\* the interpreter each operation uses: only delete_task accepts no content
interpret_response(req, resp, response_body) ==
  IF req.op = "delete_task" THEN send_json_value_or_null(req, resp, response_body)
  ELSE send_json(req, resp, response_body)

(***************************************************************************)
(* The task filters.                                                       *)
(***************************************************************************)
\* is_active_task looking at the status alone
is_active_task_by_status(task) ==
  ~(IsSome(task.status) /\ task.status.val \in {T("ARCHIVED"), T("CANCELLED")})

is_active_task(task) ==
  /\ ~task.deleted
  /\ ~(IsSome(task.status) /\ task.status.val \in {T("ARCHIVED"), T("CANCELLED")})

\* Vec::retain
Retain(items, Keep(_)) == SelectSeq(items, Keep)

\* char::to_ascii_uppercase
UpperOf(c) ==
  IF CharRank(c) >= CharRank("a") /\ CharRank(c) <= CharRank("z")
  THEN Alphabet[CharRank(c) - 31]
  ELSE c

to_ascii_uppercase(s) == [i \in 1..Len(s) |-> UpperOf(s[i])]

status_indicates_completed(status) ==
  /\ IsSome(status)
  /\ to_ascii_uppercase(status.val)
       \in {T("COMPLETED"), T("COMPLETE"), T("DONE"), T("FINISHED")}

\* extra.get(key).and_then(Value::as_bool)
ExtraBool(task, key) ==
  IF key \in DOMAIN task.extra /\ task.extra[key].t = "bool"
  THEN Some(task.extra[key].b) ELSE None

task_is_completed(task) ==
  IF status_indicates_completed(task.status) THEN TRUE
  ELSE IF /\ T("completionStatus") \in DOMAIN task.extra
          /\ task.extra[T("completionStatus")].t = "str"
          /\ status_indicates_completed(Some(task.extra[T("completionStatus")].s))
       THEN TRUE
  ELSE IF IsSome(ExtraBool(task, T("completed")))
       THEN ExtraBool(task, T("completed")).val
  ELSE IF IsSome(ExtraBool(task, T("isComplete")))
       THEN ExtraBool(task, T("isComplete")).val
  ELSE FALSE

\* filter is None, Some("Open") or Some("Completed")
apply_task_completion_filter(tasks, filter) ==
  IF IsNone(filter) THEN tasks
  ELSE LET Keep(task) == IF filter.val = "Open" THEN ~task_is_completed(task)
                         ELSE task_is_completed(task)
       IN Retain(tasks, Keep)

\* ReclaimApi::list_tasks once its request has succeeded
list_tasks_result(tasks, filter) ==
  IF filter = "Active" THEN Retain(tasks, is_active_task) ELSE tasks

(***************************************************************************)
(* run() of src/src/main.rs as a state machine.  An action runs the code   *)
(* from one await to the next; the network decides how a request ends.     *)
(***************************************************************************)
VARIABLES
  argv,      \* the parsed command line: api_key, base_url, format, command
  pc,        \* where run() is: "start", "put_get", "call", "dashboard",
             \* "refresh", "done"
  sent,      \* every request issued so far, in order
  inflight,  \* the indices in sent of the requests not yet answered
  response,  \* Some(status, url, headers) once the response has arrived
  body,      \* Some(text) when the last answered request's body was read
  outcomes,  \* what each answered request returned, in order
  result,    \* Some(what run() returned) once it has returned
  input,     \* the argument of the function under study (function specs)
  output,    \* Some(its result) once it has been applied
  app,       \* Some(DashboardApp) once run_dashboard has made it
  terminal,  \* the terminal: raw mode, alternate screen, cursor shown
  loop_result, \* Some(what run_event_loop returned) once it has returned
  restore_result \* Some(what restore_terminal returned) once it has returned

vars ==
  <<argv, pc, sent, inflight, response, body, outcomes, result, input, output,
    app, terminal, loop_result, restore_result>>
runVars == <<argv, pc, sent, inflight, response, body, outcomes, result>>
tuiVars == <<app, terminal, loop_result, restore_result>>
fnVars == <<input, output, tuiVars>>

\* the terminal as the shell leaves it, and no dashboard yet
CookedTerminal == [raw |-> FALSE, alternate |-> FALSE, cursor |-> TRUE]
NoDashboard ==
  /\ app = None
  /\ terminal = CookedTerminal
  /\ loop_result = None
  /\ restore_result = None

\* the placeholder of a get_task result that build_put_payload does not await
NotFetched == Err([kind |-> "NotFetched"])

Step(req, next_pc) == [kind |-> "send", req |-> req, pc |-> next_pc]
Return(res) == [kind |-> "return", result |-> res]
\* build is the Result of a payload builder: send what Make gives for it
SendBuilt(build, Make(_)) ==
  IF build.ok THEN Step(Make(build.val), "call") ELSE Return(build)

\* run() from the command dispatch to its first await or return
run_start(api, format, command) ==
  IF command.cmd = "list" THEN Step(list_tasks_request(api), "call")
  ELSE IF command.cmd = "dashboard"
  THEN IF format = "Json"
       THEN Return(Err(InvalidInput(
              T("The dashboard is an interactive TUI and only supports --format human."))))
       ELSE Step(list_tasks_request(api), "call")
  ELSE IF command.cmd = "get" THEN Step(get_task_request(api, command.task_id), "call")
  ELSE IF command.cmd = "put"
  THEN IF IsNone(command.json) /\ command.set = <<>>
       THEN Return(build_put_payload(command, NotFetched))
       ELSE IF put_fetches_existing(command)
       THEN Step(get_task_request(api, command.task_id), "put_get")
       ELSE LET Make(payload) == put_task_request(api, command.task_id, payload,
                                                  command.notification_key)
            IN SendBuilt(build_put_payload(command, NotFetched), Make)
  ELSE IF command.cmd = "patch"
  THEN LET Make(payload) == patch_task_request(api, command.task_id, payload,
                                               command.notification_key)
       IN SendBuilt(build_patch_payload(command), Make)
  ELSE IF command.cmd = "delete"
  THEN Step(delete_task_request(api, command.task_id, command.notification_key),
            "call")
  ELSE IF command.cmd = "events_list"
  THEN Step(list_events_request(api,
              [calendar_ids |-> command.calendar_ids,
               all_connected |-> IF command.all_connected THEN Some(TRUE) ELSE None,
               start |-> command.start,
               end |-> command.end,
               source_details |-> IF command.source_details THEN Some(TRUE) ELSE None,
               thin |-> IF command.thin THEN Some(TRUE) ELSE None]),
            "call")
  ELSE IF command.cmd = "events_get"
  THEN Step(get_event_request(api, command.calendar_id, command.event_id,
              IF command.source_details THEN Some(TRUE) ELSE None,
              IF command.thin THEN Some(TRUE) ELSE None),
            "call")
  ELSE LET Apply(value) == apply_schedule_actions_request(api, value)
           Create(create_request) == create_task_request(api, create_request)
       IN IF command.cmd = "events_create"
          THEN SendBuilt(build_event_create_request(command), Apply)
          ELSE IF command.cmd = "events_update"
          THEN SendBuilt(build_event_update_request(command), Apply)
          ELSE IF command.cmd = "events_delete"
          THEN SendBuilt(build_event_delete_request(command), Apply)
          ELSE IF command.cmd = "events_apply"
          THEN SendBuilt(build_events_apply_request(command), Apply)
          ELSE SendBuilt(build_create_task_request(command), Create)

\* the awaited API operation as it would be if list_tasks returned the
\* fetched tasks without narrowing them
operation_result_unnarrowed(command, req, outcome) == outcome

\* what the awaited API operation returns for the outcome of its request
operation_result(command, req, outcome) ==
  IF outcome.ok /\ req.op = "list_tasks"
  THEN Ok(list_tasks_result(outcome.val, IF command.all THEN "All" ELSE "Active"))
  ELSE outcome

\* the ? operator on the error of an awaited operation as it would be if a
\* failed get were sent again
Retry(api, command, returned) ==
  IF command.cmd = "get" THEN Step(get_task_request(api, command.task_id), "call")
  ELSE Return(returned)

\* the ? operator on the error of an awaited operation: run() returns it
Propagate(api, command, returned) == Return(returned)

\* the dashboard's event loop waiting for a key (src/src/dashboard.rs)
Dashboard(tasks) == [kind |-> "dashboard", tasks |-> tasks]

\* run() from the completion of an awaited operation to its next await or
\* return; returned is the Result of the operation.  A refresh of the
\* dashboard that fails only sets the status line.
run_resume(api, command, at, returned) ==
  IF at = "put_get"
  THEN LET Make(payload) == put_task_request(api, command.task_id, payload,
                                             command.notification_key)
       IN SendBuilt(build_put_payload(command, returned), Make)
  ELSE IF at = "refresh" THEN Dashboard(returned)
  ELSE IF ~returned.ok THEN Propagate(api, command, returned)
  ELSE IF command.cmd = "list"
  THEN Return(Ok(apply_task_completion_filter(returned.val, command.filter)))
  ELSE IF command.cmd = "dashboard"
  THEN Dashboard(returned)
  ELSE Return(returned)

TheApi == HttpReclaimApi_new(argv.api_key, argv.base_url)

\* the request in flight
Current == sent[CHOOSE i \in inflight : TRUE]

\* the effect of a step of run() on the state; remaining are the requests
\* still unanswered
Continue(step, remaining) ==
  /\ response' = None
  /\ IF step.kind = "send"
     THEN /\ sent' = Append(sent, step.req)
          /\ inflight' = remaining \cup {Len(sent) + 1}
          /\ pc' = step.pc
          /\ result' = result
     ELSE /\ sent' = sent
          /\ inflight' = remaining
          /\ pc' = IF step.kind = "dashboard" THEN "dashboard" ELSE "done"
          /\ result' = IF step.kind = "dashboard" THEN result
                       ELSE Some(step.result)

\* the awaited operation ends with outcome: run() goes on from there
Complete(outcome) ==
  /\ outcomes' = Append(outcomes, outcome)
  /\ Continue(run_resume(TheApi.val, argv.command, pc,
                         operation_result(argv.command, Current, outcome)),
              inflight \ {CHOOSE i \in inflight : TRUE})

\* main: run() up to its first await
Run ==
  /\ pc = "start"
  /\ IF TheApi.ok
     THEN Continue(run_start(TheApi.val, argv.format, argv.command), {})
     ELSE Continue(Return(TheApi), {})
  /\ UNCHANGED <<argv, body, outcomes, fnVars>>

\* the user presses r in the dashboard: list_tasks is awaited again
DashboardRefresh ==
  /\ pc = "dashboard"
  /\ Len(sent) <= MaxRefresh
  /\ Continue(Step(list_tasks_request(TheApi.val), "refresh"), {})
  /\ UNCHANGED <<argv, body, outcomes, fnVars>>

\* the user quits the dashboard: run_dashboard and run() return Ok(())
DashboardQuit ==
  /\ pc = "dashboard"
  /\ Continue(Return(Ok(<<>>)), {})
  /\ UNCHANGED <<argv, body, outcomes, fnVars>>

\* main: the exit code of the process for what run() returned
exit_code(res) == IF res.ok THEN 0 ELSE 2

\* request.send() fails
SendFails(error) ==
  /\ pc \in {"put_get", "call", "refresh"}
  /\ inflight # {}
  /\ IsNone(response)
  /\ Complete(Err(map_transport_error(error, capture_request_debug(Current))))
  /\ body' = None
  /\ UNCHANGED <<argv, fnVars>>

\* the final URL of a response that followed a redirect
RedirectedUrl == T("https://api.app.reclaim.ai/moved")

\* request.send() returns a response: status, final URL (that of the request
\* unless it was redirected) and headers
ResponseArrives(status, redirected, headers) ==
  /\ pc \in {"put_get", "call", "refresh"}
  /\ inflight # {}
  /\ IsNone(response)
  /\ response' = Some([status |-> status,
                       url |-> IF redirected THEN RedirectedUrl ELSE Current.url,
                       headers |-> headers])
  /\ UNCHANGED <<argv, pc, sent, inflight, body, outcomes, result, fnVars>>

\* response.text() fails
BodyReadFails ==
  /\ inflight # {}
  /\ IsSome(response)
  /\ Complete(Err(body_read_error(capture_request_debug(Current))))
  /\ body' = None
  /\ UNCHANGED <<argv, fnVars>>

\* response.text() returns the body
BodyRead(response_body) ==
  /\ inflight # {}
  /\ IsSome(response)
  /\ Complete(interpret_response(Current, response.val, response_body))
  /\ body' = Some(response_body)
  /\ UNCHANGED <<argv, fnVars>>

(***************************************************************************)
(* The command lines and the responses of the model.                       *)
(***************************************************************************)
\* all sequences over S of length at most n
RECURSIVE SeqsUpTo(_, _)
SeqsUpTo(S, n) ==
  IF n = 0 THEN {<<>>}
  ELSE LET shorter == SeqsUpTo(S, n - 1)
       IN shorter \cup {Append(q, x) : q \in shorter, x \in S}

JsonArgs ==
  {None, Some(T(" ")), Some(T("[1]")), Some(T("{}")),
   Some(T("{\"a\":{\"b\":1},\"title\":\"new\"}"))}

SetEntries == {T("a={\"c\":2}"), T("novalue")}

SetArgs == SeqsUpTo(SetEntries, MaxSet)

NotificationKeys == {None, Some(T(" ")), Some(T(" n-1 "))}

TaskId == CHOOSE id \in {7} : TRUE
CalendarId == CHOOSE id \in {829105} : TRUE
EventId == T("abc123")
DEFAULT_POLICY_ID == T("00000000-0000-0000-0000-000000000000")

ListCommands ==
  {[cmd |-> "list", all |-> all, filter |-> filter] :
     all \in BOOLEAN, filter \in {None, Some("Open"), Some("Completed")}}

DashboardCommands == {[cmd |-> "dashboard", all |-> all] : all \in BOOLEAN}

GetCommands == {[cmd |-> "get", task_id |-> TaskId]}

PutCommands ==
  {[cmd |-> "put", task_id |-> TaskId, json |-> json, set |-> set,
    notification_key |-> None] : json \in JsonArgs, set \in SetArgs}

PatchCommands ==
  {[cmd |-> "patch", task_id |-> TaskId, json |-> json, set |-> set,
    notification_key |-> None] : json \in JsonArgs, set \in SetArgs}

DeleteCommands ==
  {[cmd |-> "delete", task_id |-> TaskId, notification_key |-> key] :
     key \in NotificationKeys}

EventsListCommands ==
  {[cmd |-> "events_list", calendar_ids |-> ids, all_connected |-> FALSE,
    start |-> start, end |-> None, source_details |-> FALSE, thin |-> thin] :
     ids \in {<<>>, <<CalendarId>>},
     start \in {None, Some(T(" ")), Some(T("2026-02-01"))},
     thin \in BOOLEAN}

EventsGetCommands ==
  {[cmd |-> "events_get", calendar_id |-> CalendarId, event_id |-> EventId,
    source_details |-> details, thin |-> FALSE] : details \in BOOLEAN}

EventsCreateCommands ==
  {[cmd |-> "events_create", calendar_id |-> CalendarId, title |-> T("Team sync"),
    start |-> start, end |-> T("2026-02-21T19:00:00Z"),
    policy_id |-> policy, attendees |-> <<T(" "), T("person@example.com")>>,
    description |-> None, location |-> Some(T(" room ")),
    priority |-> priority, visibility |-> None, transparency |-> None,
    guests_can_modify |-> FALSE, guests_can_invite_others |-> TRUE,
    guests_can_see_other_guests |-> TRUE, json |-> json, set |-> set] :
     start \in {T(" "), T("2026-02-21T18:30:00Z")},
     policy \in {T(" "), DEFAULT_POLICY_ID},
     priority \in {Some(T("P2"))},
     json \in {None, Some(T("{\"priority\":\"P1\"}")), Some(T("{"))},
     set \in SeqsUpTo({T("priority=P4"), T("=x")}, 1)}

EventsUpdateCommands ==
  {[cmd |-> "events_update", calendar_id |-> CalendarId, event_id |-> EventId,
    policy_id |-> DEFAULT_POLICY_ID, title |-> title, description |-> None,
    location |-> None, priority |-> None, visibility |-> None,
    transparency |-> None, start |-> start, end |-> end,
    json |-> json, set |-> set] :
     title \in {None, Some(T(" ")), Some(T("Retro"))},
     start \in {None, Some(T("2026-02-21T18:30:00Z"))},
     end \in {None, Some(T(" "))},
     json \in {None, Some(T("{\"hash\":\"h\"}"))},
     set \in SeqsUpTo({T("priority=P4"), T("novalue")}, 1)}

EventsDeleteCommands ==
  {[cmd |-> "events_delete", calendar_id |-> CalendarId, event_id |-> EventId,
    policy_id |-> policy, message |-> message] :
     policy \in {T(" "), DEFAULT_POLICY_ID},
     message \in {None, Some(T(" ")), Some(T("sorry"))}}

EventsApplyCommands ==
  {[cmd |-> "events_apply", json |-> json] :
     json \in {T(""), T("{"), T("[]"), T("{}"), T("{\"actionsTaken\":1}"),
               T("{\"actionsTaken\":[]}"), T("  "), T("7"),
               T(" {\"actionsTaken\":[{\"type\":\"X\"},2],\"note\":null} "),
               T("{\"actionsTaken\":[{\"type\":\"CancelEventAction\"}]}")}}

ChunkArgs == {None, Some(1), Some(3)}

CreateCommands ==
  {[cmd |-> "create", title |-> T("Plan"), notes |-> None,
    priority |-> Some(T("P2")), due |-> due, time_chunks_required |-> total,
    event_category |-> T("WORK"), min_chunk_size |-> min,
    max_chunk_size |-> max, always_private |-> TRUE] :
     due \in {None, Some(T(" "))},
     total \in {None, Some(0), Some(2), Some(4)},
     min \in ChunkArgs,
     max \in ChunkArgs}

Commands ==
  ListCommands \cup DashboardCommands \cup GetCommands \cup PutCommands
  \cup PatchCommands \cup DeleteCommands \cup EventsListCommands
  \cup EventsGetCommands \cup EventsCreateCommands \cup EventsUpdateCommands
  \cup EventsDeleteCommands \cup EventsApplyCommands \cup CreateCommands

DefaultBaseUrl == T("https://api.app.reclaim.ai/api")

\* every command with a usable key and base URL, and one command with the
\* other keys and base URLs
Invocations ==
  {[api_key |-> Some(T("key")), base_url |-> DefaultBaseUrl, format |-> format,
    command |-> command] :
     format \in {"Human"}, command \in Commands \ DashboardCommands}
  \cup {[api_key |-> Some(T("key")), base_url |-> DefaultBaseUrl,
         format |-> format, command |-> command] :
          format \in {"Human", "Json"}, command \in DashboardCommands}
  \cup {[api_key |-> key, base_url |-> url, format |-> "Json",
         command |-> command] :
          key \in {None, Some(T(" ")), Some(T(" key "))},
          url \in {T("not a url"), T("https://h"), T("https://h/api//")},
          command \in GetCommands}
  \cup {[api_key |-> given[1], base_url |-> given[2], format |-> "Human",
         command |-> command] :
          given \in {<<None, DefaultBaseUrl>>, <<Some(T("key")), T("not a url")>>},
          command \in Commands}

Statuses == {199, 200, 299, 300}

\* how a response arrives: directly and without a request id, or redirected
\* and with one
Arrivals ==
  {[redirected |-> FALSE, headers |-> <<>>],
   [redirected |-> TRUE,
    headers |-> "x-request-id" :> [visible |-> TRUE, text |-> T(" req-123 ")]]}

ResponseBodies ==
  {T(""), T(" "), T("oops"), T("null"), T("[]"),
   T("{\"message\":\"denied\"}"),
   T("{\"id\":7,\"title\":\"t\"}"),
   T(" {\"id\":7,\"title\":\"t\",\"status\":\"done\",\"snooze\":{\"until\":1},\"a\":0} "),
   T("[{\"id\":1,\"title\":\"a\",\"deleted\":true},{\"id\":2,\"title\":\"b\",\"completed\":true},{\"id\":3,\"title\":\"c\",\"status\":\"ARCHIVED\"},{\"id\":4,\"title\":\"d\"}]")}

NoInput == [fn |-> "none"]

Init ==
  /\ argv \in Invocations
  /\ pc = "start"
  /\ sent = <<>>
  /\ inflight = {}
  /\ response = None
  /\ body = None
  /\ outcomes = <<>>
  /\ result = None
  /\ input = NoInput
  /\ output = None
  /\ NoDashboard

Next ==
  \/ Run
  \/ \E error \in SendFailures : SendFails(error)
  \/ \E status \in Statuses, arrival \in Arrivals :
       ResponseArrives(status, arrival.redirected, arrival.headers)
  \/ BodyReadFails
  \/ \E response_body \in ResponseBodies : BodyRead(response_body)
  \/ DashboardRefresh
  \/ DashboardQuit

Spec == Init /\ [][Next]_vars

(***************************************************************************)
(* Properties of run() and of the request / response exchange, checked     *)
(* under Spec.                                                             *)
(***************************************************************************)
\* the client was built: the key and the base URL were accepted
ClientBuilt == TheApi.ok
IsInvalidInput(res) == ~res.ok /\ res.err.kind = "InvalidInput"
TaskUrl == T("https://api.app.reclaim.ai/api/tasks/7")
PutWithoutBlob ==
  /\ ClientBuilt
  /\ argv.command.cmd = "put"
  /\ IsNone(argv.command.json)
  /\ argv.command.set # <<>>

\* C2: a put with no --json blob and at least one --set entry issues at most
\* two requests, never two at a time: first GET tasks/{id}, and a PUT
\* tasks/{id} only once that GET has completed with a task; the PUT body is the
\* serialization of that task with every override key added or replaced; a
\* failed GET is followed by no PUT, and a successful GET whose overrides all
\* parse is followed by the PUT at once.
C2_PutAfterGet ==
  PutWithoutBlob =>
    /\ Len(sent) <= 2
    /\ Cardinality(inflight) <= 1
    /\ Len(sent) >= 1 =>
         /\ sent[1].method = "GET"
         /\ sent[1].url = TaskUrl
         /\ IsNone(sent[1].body)
    /\ Len(sent) = 2 =>
         /\ sent[2].method = "PUT"
         /\ sent[2].url = TaskUrl
         /\ 1 \notin inflight
         /\ Len(outcomes) >= 1
         /\ outcomes[1].ok
         /\ LET fetched == TaskToValue(outcomes[1].val).o
                overrides == parse_set_entries(argv.command.set).val
            IN sent[2].body =
                 Some(JObj([k \in DOMAIN fetched \cup DOMAIN overrides |->
                              IF k \in DOMAIN overrides THEN overrides[k]
                              ELSE fetched[k]]))
    /\ (Len(outcomes) >= 1 /\ ~outcomes[1].ok) => Len(sent) = 1
    /\ (Len(outcomes) >= 1 /\ outcomes[1].ok
        /\ parse_set_entries(argv.command.set).ok) => Len(sent) = 2

\* the PUT is in flight with a key of the fetched task replaced by an override
C2_Witness ==
  /\ PutWithoutBlob
  /\ Len(sent) = 2
  /\ inflight = {2}
  /\ T("a") \in DOMAIN outcomes[1].val.extra
  /\ sent[2].body.val.o[T("a")] = JObj(T("c") :> JNum(2))
  /\ sent[2].body.val.o[T("title")] = JStr(T("t"))

\* C3: an invocation that has ended with an Invalid-Input error has sent no
\* HTTP request.
C3_InvalidInputSendsNothing ==
  (IsSome(result) /\ IsInvalidInput(result.val)) => sent = <<>>

\* C4: a put with neither --json nor --set ends with Invalid-Input and no
\* request; a patch whose blob (if given) is a JSON object and whose overrides
\* all parse ends with Invalid-Input and no request when the merged object
\* has no key, and otherwise sends a PATCH whose body is that non-empty object.
C4_EmptyUpdates ==
  LET command == argv.command
      blob == IF IsSome(command.json) THEN FromStr(Trim(command.json.val))
              ELSE Some(JObj(EmptyMap))
      parses == /\ IsSome(blob)
                /\ blob.val.t = "obj"
                /\ \A i \in 1..Len(command.set) : parse_set_entry(command.set[i]).ok
  IN (ClientBuilt /\ pc # "start") =>
       /\ (command.cmd = "put" /\ IsNone(command.json) /\ command.set = <<>>) =>
            /\ sent = <<>>
            /\ IsSome(result)
            /\ IsInvalidInput(result.val)
       /\ (command.cmd = "patch" /\ parses) =>
            IF DOMAIN blob.val.o = {} /\ command.set = <<>>
            THEN /\ sent = <<>>
                 /\ IsSome(result)
                 /\ IsInvalidInput(result.val)
            ELSE /\ Len(sent) = 1
                 /\ sent[1].method = "PATCH"
                 /\ IsSome(sent[1].body)
                 /\ sent[1].body.val.t = "obj"
                 /\ DOMAIN sent[1].body.val.o # {}
                 /\ (IsSome(result) => ~IsInvalidInput(result.val))

\* a patch whose blob is the empty object and that has no override has ended
C4_Witness ==
  /\ ClientBuilt
  /\ argv.command.cmd = "patch"
  /\ argv.command.json = Some(T("{}"))
  /\ argv.command.set = <<>>
  /\ pc = "done"
  /\ sent = <<>>

\* the request whose outcome the step records, and that outcome
Answered == sent[Len(outcomes')]
Outcome == outcomes'[Len(outcomes')]
HasKind(outcome, kind) == ~outcome.ok /\ outcome.err.kind = kind

\* C7: every request has one outcome or is in flight; a step that records an
\* outcome appends it and leaves the earlier ones as they are; the outcome is
\* a Transport error when sending failed or the body could not be read,
\* otherwise an Api error with the response's status when that is outside
\* 200..299, otherwise a success when the body decodes into the operation's
\* shape (or is blank, for delete_task), otherwise a ResponseParse error; the
\* arrival of the response, before its body is read, records nothing.
C7_OutcomeOrder ==
  /\ [](Len(outcomes) + Cardinality(inflight) = Len(sent))
  /\ [][IsNone(response) /\ IsSome(response') => outcomes' = outcomes]_vars
  /\ [][outcomes' # outcomes =>
          /\ Len(outcomes') = Len(outcomes) + 1
          /\ SubSeq(outcomes', 1, Len(outcomes)) = outcomes
          /\ IF IsNone(response) \/ IsNone(body')
             THEN HasKind(Outcome, "Transport")
             ELSE IF response.val.status < 200 \/ response.val.status > 299
             THEN /\ HasKind(Outcome, "Api")
                  /\ Outcome.err.status = response.val.status
             ELSE IF \/ FromStrAs(ResponseShape(Answered.op), body'.val).ok
                     \/ Answered.op = "delete_task" /\ Trim(body'.val) = <<>>
             THEN Outcome.ok
             ELSE HasKind(Outcome, "ResponseParse")]_vars

\* a put has had its GET answered with a task and its PUT answered with
\* HTTP 300, whose body would decode as a task
C7_Witness ==
  /\ Len(outcomes) = 2
  /\ outcomes[1].ok
  /\ HasKind(outcomes[2], "Api")
  /\ outcomes[2].err.status = 300
  /\ IsSome(body)
  /\ FromStrAs("Task", body.val).ok

\* C8: when a body that is empty or white space only has been read, a 2xx
\* response makes delete_task return the JSON null and every other operation
\* a ResponseParse error, and a response of any other status makes every
\* operation return an Api error.
C8_EmptyBody ==
  [][(outcomes' # outcomes /\ IsSome(response) /\ IsSome(body')
      /\ Trim(body'.val) = <<>>) =>
       IF response.val.status >= 200 /\ response.val.status <= 299
       THEN IF Answered.op = "delete_task" THEN Outcome = Ok(JNull)
            ELSE HasKind(Outcome, "ResponseParse")
       ELSE HasKind(Outcome, "Api")]_vars

\* a delete has ended with the JSON null after a blank body
C8_Witness ==
  /\ argv.command.cmd = "delete"
  /\ body = Some(T(" "))
  /\ outcomes = <<Ok(JNull)>>
  /\ result = Some(Ok(JNull))

(***************************************************************************)
(* The --set parser on its own: parse_set_entry applied to every text of   *)
(* at most MaxEntryLen characters of EntryChars and to the entries of      *)
(* NamedEntries, parse_set_entries applied to every list of at most MaxSet *)
(* entries of ListedEntries.                                               *)
(***************************************************************************)
\* a function specification leaves run() where it is
Idle ==
  /\ argv = <<>>
  /\ pc = "idle"
  /\ sent = <<>>
  /\ inflight = {}
  /\ response = None
  /\ body = None
  /\ outcomes = <<>>
  /\ result = None
  /\ NoDashboard

\* the function under study returns value
Returns(value) ==
  /\ output = None
  /\ output' = Some(value)
  /\ UNCHANGED <<input, runVars, tuiVars>>

EntryChars == {"k", "=", "1", "\"", " "}

NamedEntries ==
  {T("priority=P4"), T("done=true"), T("count=3"), T("k=a=b"), T("n=null"),
   T("a=[1,\"x\"]"), T("o={\"c\":2}"), T("s=\"q r\""), T("novalue"),
   T(" =1"), T("k= true "), T(" k = P 4 "), T("t=tru"), T("x=01"),
   T("e=\"a\\\"b\""), T("title=hello")}

EntryInputs == SeqsUpTo(EntryChars, MaxEntryLen) \cup NamedEntries

ListedEntries == {T("a=1"), T("a=x"), T("b=true"), T("novalue"), T(" =1")}

InitSet ==
  /\ input \in [fn : {"parse_set_entry"}, entry : EntryInputs]
               \cup [fn : {"parse_set_entries"},
                     entries : SeqsUpTo(ListedEntries, MaxSet)]
  /\ output = None
  /\ Idle

ParseSetEntry ==
  /\ input.fn = "parse_set_entry"
  /\ Returns(parse_set_entry(input.entry))

ParseSetEntries ==
  /\ input.fn = "parse_set_entries"
  /\ Returns(parse_set_entries(input.entries))

NextSet == ParseSetEntry \/ ParseSetEntries

SpecSet == InitSet /\ [][NextSet]_vars

\* does the text part occur in whole
Contains(whole, part) ==
  \E i \in 1..(Len(whole) - Len(part) + 1) : Matches(whole, i, part)

\* the indices of the '=' characters of an entry, and the first of them
EqualsAt(entry) == {i \in 1..Len(entry) : entry[i] = "="}
FirstEquals(entry) ==
  CHOOSE i \in EqualsAt(entry) : \A j \in EqualsAt(entry) : i <= j
KeyText(entry) == SubSeq(entry, 1, FirstEquals(entry) - 1)
ValueText(entry) == SubSeq(entry, FirstEquals(entry) + 1, Len(entry))
\* parse_set_entry has returned a key and a value for an entry
EntryParsed ==
  /\ input.fn = "parse_set_entry"
  /\ IsSome(output)
  /\ output.val.ok

C6_SplitAtFirstEquals ==
  /\ (input.fn = "parse_set_entry" /\ IsSome(output)) =>
       IF EqualsAt(input.entry) = {} \/ Trim(KeyText(input.entry)) = <<>>
       THEN /\ IsInvalidInput(output.val)
            /\ Contains(output.val.err.message, input.entry)
       ELSE /\ output.val.ok
            /\ output.val.val[1] = Trim(KeyText(input.entry))
            /\ output.val.val[2] = parse_set_value(Trim(ValueText(input.entry)))
  /\ (input = [fn |-> "parse_set_entry", entry |-> T("k=a=b")]
      /\ IsSome(output)) => output.val = Ok(<<T("k"), JStr(T("a=b"))>>)
  /\ (input.fn = "parse_set_entries" /\ IsSome(output)) =>
       LET bad == {i \in 1..Len(input.entries) :
                     \/ EqualsAt(input.entries[i]) = {}
                     \/ Trim(KeyText(input.entries[i])) = <<>>}
       IN IF bad = {}
          THEN /\ output.val.ok
               /\ DOMAIN output.val.val =
                    {Trim(KeyText(input.entries[i])) : i \in 1..Len(input.entries)}
          ELSE /\ IsInvalidInput(output.val)
               /\ Contains(output.val.err.message,
                           input.entries[CHOOSE i \in bad : \A j \in bad : i <= j])
               /\ \A i \in bad :
                    \/ i = CHOOSE k \in bad : \A j \in bad : k <= j
                    \/ input.entries[i] =
                         input.entries[CHOOSE k \in bad : \A j \in bad : k <= j]
                    \/ ~Contains(output.val.err.message, input.entries[i])

\* a list whose first entry is valid and whose second is not has been refused
C6_Witness ==
  /\ input = [fn |-> "parse_set_entries", entries |-> <<T("a=1"), T("novalue")>>]
  /\ IsSome(output)
  /\ IsInvalidInput(output.val)
  /\ Contains(output.val.err.message, T("'novalue'"))

(***************************************************************************)
(* The payload builders as pure functions: every combination of flags,     *)
(* --json blob and --set overrides below is given to each builder.         *)
(***************************************************************************)
\* blobs: none, an object whose keys collide with flags and overrides, and
\* texts that are refused
BuildBlobs ==
  {None,
   Some(T("{\"title\":\"new\",\"priority\":{\"b\":1},\"blobOnly\":[1]}")),
   Some(T("{}")), Some(T("[1]"))}

\* overrides: one that collides with a flag and the blob by an object, one
\* that collides with a flag only, one that no other stage names, one refused
BuildEntries ==
  {T("priority={\"c\":2}"), T("location=home"), T("setOnly=1"), T("novalue")}

BuildSets == SeqsUpTo(BuildEntries, MaxBuildSet)

CreateEventBase == CHOOSE c \in EventsCreateCommands : c.policy_id = DEFAULT_POLICY_ID

UpdateEventBase == CHOOSE c \in EventsUpdateCommands : TRUE

BuildCreateArgs ==
  {[CreateEventBase EXCEPT !.start = T("2026-02-21T18:30:00Z"),
                           !.priority = priority, !.json = json, !.set = set] :
     priority \in {None, Some(T("P2"))}, json \in BuildBlobs, set \in BuildSets}

BuildUpdateArgs ==
  {[UpdateEventBase EXCEPT !.title = Some(T("Retro")), !.start = None,
                           !.end = None, !.priority = priority,
                           !.json = json, !.set = set] :
     priority \in {None, Some(T("P2"))}, json \in BuildBlobs, set \in BuildSets}

BuildTaskArgs ==
  {[task_id |-> TaskId, json |-> json, set |-> set, notification_key |-> None] :
     json \in BuildBlobs, set \in BuildSets}

\* what api.get_task returns to build_put_payload
FetchedTasks ==
  {Ok([id |-> TaskId, title |-> T("old"), status |-> None, due |-> None,
       priority |-> Some(T("P3")), notes |-> None, deleted |-> FALSE,
       extra |-> T("location") :> JNum(1)]),
   Err(Transport(T("Could not connect to the Reclaim API.")))}

InitBuild ==
  /\ input \in [fn : {"build_event_create_request"}, args : BuildCreateArgs]
               \cup [fn : {"build_event_update_request"}, args : BuildUpdateArgs]
               \cup [fn : {"build_put_payload"}, args : BuildTaskArgs,
                     fetched : FetchedTasks]
               \cup [fn : {"build_patch_payload"}, args : BuildTaskArgs]
  /\ output = None
  /\ Idle

BuildEventCreate ==
  /\ input.fn = "build_event_create_request"
  /\ Returns(build_event_create_request(input.args))

BuildEventUpdate ==
  /\ input.fn = "build_event_update_request"
  /\ Returns(build_event_update_request(input.args))

BuildPut ==
  /\ input.fn = "build_put_payload"
  /\ Returns(build_put_payload(input.args, input.fetched))

BuildPatch ==
  /\ input.fn = "build_patch_payload"
  /\ Returns(build_patch_payload(input.args))

NextBuild == BuildEventCreate \/ BuildEventUpdate \/ BuildPut \/ BuildPatch

SpecBuild == InitBuild /\ [][NextBuild]_vars

\* a builder has returned a payload
Built == input.fn # "none" /\ IsSome(output) /\ output.val.ok

\* the object built: the single action of an event request, the payload of
\* put and patch
BuiltObject ==
  IF input.fn \in {"build_event_create_request", "build_event_update_request"}
  THEN output.val.val.o[T("actionsTaken")].a[1].o
  ELSE output.val.val.o

\* the three stages of the input: the fields the typed flags give (for put
\* without a blob, the fields of the fetched task), the fields of the blob,
\* and the overrides
FlagStage ==
  IF input.fn = "build_event_create_request"
  THEN event_create_flag_fields(input.args)
  ELSE IF input.fn = "build_event_update_request"
  THEN event_update_flag_fields(input.args)
  ELSE IF input.fn = "build_put_payload" /\ IsNone(input.args.json)
  THEN TaskToValue(input.fetched.val).o
  ELSE EmptyMap

BlobStage ==
  IF IsSome(input.args.json) THEN FromStr(Trim(input.args.json.val)).val.o
  ELSE EmptyMap

Range(s) == {s[i] : i \in 1..Len(s)}

\* the entries of --set that name key, in the order given
Naming(key) ==
  SelectSeq(input.args.set, LAMBDA entry : Trim(KeyText(entry)) = key)

OverrideKeys == {Trim(KeyText(input.args.set[i])) : i \in 1..Len(input.args.set)}

\* the value of the last override that names key
OverrideValue(key) ==
  parse_set_value(Trim(ValueText(Naming(key)[Len(Naming(key))])))

\* C1: each key of the object built by build_event_create_request,
\* build_event_update_request, build_put_payload and build_patch_payload holds
\* the override's value if an override names it, else the blob's value if the
\* blob has that key, else the flag-derived value; the keys of the object are
\* those of the three stages together, so a key of an earlier stage alone
\* keeps its value; a colliding value is replaced whole: the object of an
\* override replaces the object of the blob without keeping any of its fields.
C1_StagePrecedence ==
  /\ Built =>
       /\ DOMAIN BuiltObject =
            DOMAIN FlagStage \cup DOMAIN BlobStage \cup OverrideKeys
       /\ \A key \in DOMAIN BuiltObject :
            BuiltObject[key] =
              IF key \in OverrideKeys THEN OverrideValue(key)
              ELSE IF key \in DOMAIN BlobStage THEN BlobStage[key]
              ELSE FlagStage[key]
  /\ (Built /\ T("priority={\"c\":2}") \in Range(input.args.set)) =>
       BuiltObject[T("priority")] = JObj(T("c") :> JNum(2))

\* an event has been built from a flag, a blob and an override that all name
\* priority, and the override's object has replaced the blob's
C1_Witness ==
  /\ input.fn = "build_event_create_request"
  /\ input.args.priority = Some(T("P2"))
  /\ IsSome(input.args.json)
  /\ input.args.set = <<T("priority={\"c\":2}")>>
  /\ Built
  /\ BuiltObject[T("priority")] = JObj(T("c") :> JNum(2))
  /\ BuiltObject[T("title")] = JStr(T("new"))
  /\ BuiltObject[T("blobOnly")] = JArr(<<JNum(1)>>)
  /\ BuiltObject[T("calendarId")] = JNum(CalendarId)

(***************************************************************************)
(* parse_api_error as a pure function of a failed exchange: the request,   *)
(* and the status, body, final URL and headers of the response.            *)
(***************************************************************************)
LongBody == [i \in 1..LongBodyLen |-> "x"] \o <<>>

ErrorBodies ==
  {T(""), T("  "), T("oops"), T(" upstream down "), LongBody, T("[1]"), T("{}"),
   T("{\"error\":\"internal_error\",\"detail\":\"validation failed\"}"),
   T("{\"message\":\" denied \",\"title\":\"t\"}"),
   T("{\"message\":\" \",\"title\":7,\"detail\":\"why\",\"errors\":\"e\"}"),
   T("{\"message\":null,\"errors\":\" bad input \"}"),
   T("{\"errors\":[1,{\"code\":2},{\"message\":\"second\"},\"third\"]}"),
   T("{\"errors\":[\"first\",{\"message\":\"second\"}]}"),
   T("{\"errors\":{\"priority\":[\"must be one of P1, P2, P3, P4\"]}}"),
   T("{\"errors\":{\"a\":[1],\"b\":[{\"message\":\"x\"}],\"c\":\"y\"}}"),
   T("{\"errors\":{\"a\":\"y\",\"b\":[\"x\"]}}"),
   T("{\"errors\":{\"a\":1}}"), T("{\"errors\":[]}"), T("{\"errors\":\" \"}"),
   T("{\"errors\":7,\"status\":\"bad\"}")}

ErrorStatuses == {404, 500}

ErrorHeaders ==
  {<<>>,
   "x-request-id" :> [visible |-> TRUE, text |-> T(" req-123 ")],
   ("x-request-id" :> [visible |-> TRUE, text |-> T(" ")])
     @@ ("x-correlation-id" :> [visible |-> TRUE, text |-> T("corr-1")]),
   ("x-request-id" :> [visible |-> FALSE, text |-> T("req")])
     @@ ("x-amzn-trace-id" :> [visible |-> TRUE, text |-> T("trace-9")]),
   ("x-correlation-id" :> [visible |-> TRUE, text |-> T("corr-1")])
     @@ ("x-amzn-trace-id" :> [visible |-> TRUE, text |-> T("trace-9")]),
   "content-type" :> [visible |-> TRUE, text |-> T("application/json")]}

TasksUrl == T("https://api.app.reclaim.ai/api/tasks")

FailedRequests ==
  {[op |-> "list_tasks", method |-> "GET", url |-> TasksUrl,
    bearer |-> T("key"), body |-> None],
   [op |-> "create_task", method |-> "POST", url |-> TasksUrl,
    bearer |-> T("key"),
    body |-> Some(JObj((T("title") :> JStr(T("fix??")))
                       @@ (T("priority") :> JStr(T("P4")))))]}

InitApiError ==
  /\ input \in [fn : {"parse_api_error"}, request : FailedRequests,
                status : ErrorStatuses, response_body : ErrorBodies,
                response_url : {TasksUrl, RedirectedUrl},
                response_headers : ErrorHeaders]
  /\ output = None
  /\ Idle

ParseApiError ==
  /\ input.fn = "parse_api_error"
  /\ Returns(parse_api_error(input.status, input.response_body,
                             input.response_url, input.response_headers,
                             capture_request_debug(input.request)))

NextApiError == ParseApiError

SpecApiError == InitApiError /\ [][NextApiError]_vars

\* parse_api_error has returned
ApiErrorBuilt == input.fn = "parse_api_error" /\ IsSome(output)

\* the smallest member of a non-empty set of numbers
Least(S) == CHOOSE i \in S : \A j \in S : i <= j

\* the trimmed response body and the JSON value it holds, if any
ErrorBody == Trim(input.response_body)
ErrorJson == IF ErrorBody = <<>> THEN None ELSE FromStr(ErrorBody)

NamedFields == <<T("message"), T("title"), T("error"), T("detail")>>

\* the text of a string field of the body without the white space around
\* it, <<>> when the body has no such string field
FieldText(field) ==
  IF /\ IsSome(ErrorJson) /\ ErrorJson.val.t = "obj"
     /\ field \in DOMAIN ErrorJson.val.o /\ ErrorJson.val.o[field].t = "str"
  THEN Trim(ErrorJson.val.o[field].s)
  ELSE <<>>

NonBlankFields == {i \in 1..Len(NamedFields) : FieldText(NamedFields[i]) # <<>>}

\* an element that is a string or an object with a string message, and its
\* message
HasText(item) ==
  \/ item.t = "str"
  \/ item.t = "obj" /\ T("message") \in DOMAIN item.o
     /\ item.o[T("message")].t = "str"
TextOf(item) == IF item.t = "str" THEN item.s ELSE item.o[T("message")].s

\* is value a string or an array holding an element with a message, and the
\* message it gives
GivesText(value) ==
  \/ value.t = "str"
  \/ value.t = "arr" /\ \E i \in 1..Len(value.a) : HasText(value.a[i])
TextGiven(value) ==
  IF value.t = "str" THEN value.s
  ELSE TextOf(value.a[Least({i \in 1..Len(value.a) : HasText(value.a[i])})])

\* the message found in the errors field of the body, not yet trimmed; <<>>
\* when there is none.  The fields of an errors object are taken in the order
\* of the map, which is the order of their names.
ErrorsText ==
  IF ~(/\ IsSome(ErrorJson) /\ ErrorJson.val.t = "obj"
       /\ T("errors") \in DOMAIN ErrorJson.val.o)
  THEN <<>>
  ELSE LET errors == ErrorJson.val.o[T("errors")]
       IN IF errors.t \in {"str", "arr"}
          THEN IF GivesText(errors) THEN TextGiven(errors) ELSE <<>>
          ELSE IF errors.t = "obj"
          THEN LET fields == SortedKeys(DOMAIN errors.o)
                   giving == {i \in 1..Len(fields) : GivesText(errors.o[fields[i]])}
               IN IF giving = {} THEN <<>>
                  ELSE fields[Least(giving)] \o T(": ")
                       \o TextGiven(errors.o[fields[Least(giving)]])
          ELSE <<>>

\* the message C9 describes
ExpectedMessage ==
  IF NonBlankFields # {} THEN FieldText(NamedFields[Least(NonBlankFields)])
  ELSE IF Trim(ErrorsText) # <<>> THEN Trim(ErrorsText)
  ELSE IF ErrorBody # <<>>
  THEN IF Len(ErrorBody) > DEBUG_SUMMARY_LIMIT
       THEN SubSeq(ErrorBody, 1, DEBUG_SUMMARY_LIMIT) \o T("... <truncated>")
       ELSE ErrorBody
  ELSE T("Request failed with HTTP ") \o ToDecimal(input.status) \o T(".")

\* the text of the Api error, as Display renders it
Rendered == Display(output.val)

\* the lines of the rendered error
HasLine(line) ==
  \/ Contains(Rendered, <<"\n">> \o line \o <<"\n">>)
  \/ Matches(Rendered, Len(Rendered) - Len(line), <<"\n">> \o line)

\* C9: the message of an Api error is the first available of: the non-blank
\* string value of the body fields message, title, error, detail, in that
\* order; the message found in the errors field (the string itself; for an
\* array the first element that is a string or an object with a string
\* message; for an object the first field whose value is a string or an array
\* holding such an element, as "<field>: <message>"); the body truncated to
\* the summary budget when it is not empty; and otherwise "Request failed
\* with HTTP <status>.".  Values and body are taken without the white space
\* around them, and a blank one is not available.
C9_FirstAvailableMessage ==
  /\ ApiErrorBuilt =>
       /\ output.val.kind = "Api"
       /\ HasLine(T("API message: ") \o ExpectedMessage)
       /\ api_error_summary(input.status, input.response_body) = ExpectedMessage
  /\ (ApiErrorBuilt /\ input.response_body
        = T("{\"errors\":{\"priority\":[\"must be one of P1, P2, P3, P4\"]}}")) =>
       HasLine(T("API message: priority: must be one of P1, P2, P3, P4"))
  /\ (ApiErrorBuilt /\ input.response_body
        = T("{\"error\":\"internal_error\",\"detail\":\"validation failed\"}")) =>
       HasLine(T("API message: internal_error"))
  /\ (ApiErrorBuilt /\ input.response_body = T("") /\ input.status = 404) =>
       HasLine(T("API message: Request failed with HTTP 404."))

\* the message of detail has been taken because message is blank and title
\* is not a string, although errors also gives one
C9_Witness ==
  /\ ApiErrorBuilt
  /\ input.response_body
       = T("{\"message\":\" \",\"title\":7,\"detail\":\"why\",\"errors\":\"e\"}")
  /\ HasLine(T("API message: why"))

\* the headers that name the upstream request, in the order they are checked
IdHeaders == <<"x-request-id", "x-correlation-id", "x-amzn-trace-id">>

\* the headers of the response with a non-blank value (a value that is not
\* readable text has none)
WithId ==
  {i \in 1..Len(IdHeaders) :
     /\ IdHeaders[i] \in DOMAIN input.response_headers
     /\ input.response_headers[IdHeaders[i]].visible
     /\ Trim(input.response_headers[IdHeaders[i]].text) # <<>>}

\* the raw response as the error shows it
RawResponse ==
  IF IsSome(ErrorJson)
  THEN T("Raw response JSON: ") \o to_string_pretty(ErrorJson.val)
  ELSE IF ErrorBody = <<>> THEN T("Raw response body: <empty>")
  ELSE T("Raw response body: ") \o ErrorBody

\* C10: every Api error rendered for a non-2xx response contains the status,
\* a "Request: <method> <URL>" line, the extracted API message and the raw
\* response JSON or body (or "<empty>"); it contains a "Response URL" line if
\* and only if the response URL differs from the request URL; it contains a
\* request-id line if and only if one of the headers x-request-id,
\* x-correlation-id, x-amzn-trace-id has a non-blank value, and the line
\* holds the value of the first such header in that order; and it contains
\* the request payload if and only if the request carried a body.
C10_ErrorContext ==
  ApiErrorBuilt =>
    /\ Matches(Rendered, 1,
               T("Reclaim API returned HTTP ") \o ToDecimal(input.status) \o T(": "))
    /\ Contains(Rendered, T("Request: ") \o T(input.request.method) \o <<" ">>
                          \o input.request.url \o <<"\n">>)
    /\ HasLine(T("API message: ") \o ExpectedMessage)
    /\ Contains(Rendered, <<"\n">> \o RawResponse)
    /\ Contains(Rendered, T("\nResponse URL: "))
         <=> input.response_url # input.request.url
    /\ input.response_url # input.request.url
         => HasLine(T("Response URL: ") \o input.response_url)
    /\ Contains(Rendered, T("\nReclaim request id: ")) <=> WithId # {}
    /\ WithId # {} =>
         HasLine(T("Reclaim request id: ")
                 \o Trim(input.response_headers[IdHeaders[Least(WithId)]].text))
    /\ Contains(Rendered, T("\nRequest payload: ")) <=> IsSome(input.request.body)
    /\ IsSome(input.request.body) =>
         Contains(Rendered,
                  T("\nRequest payload: ")
                  \o to_string_pretty(input.request.body.val))

\* a redirected POST has failed with a JSON body; x-request-id is blank and
\* the error shows the value of x-correlation-id, the response URL and the
\* payload
C10_Witness ==
  /\ ApiErrorBuilt
  /\ input.status = 500
  /\ input.request.method = "POST"
  /\ input.response_url = RedirectedUrl
  /\ input.response_body
       = T("{\"error\":\"internal_error\",\"detail\":\"validation failed\"}")
  /\ "x-request-id" \in DOMAIN input.response_headers
  /\ HasLine(T("Reclaim request id: corr-1"))
  /\ HasLine(T("Response URL: https://api.app.reclaim.ai/moved"))
  /\ Contains(Rendered, T("Raw response JSON: {\n  \"detail\": \"validation failed\""))
  /\ Contains(Rendered, T("Request payload: {\n  \"priority\": \"P4\""))

(***************************************************************************)
(* Properties of run() as a whole.                                         *)
(***************************************************************************)
IsDashboard == argv.command.cmd = "dashboard"

\* an awaited operation has just ended with a Transport, Api or
\* ResponseParse error
OperationFailed ==
  /\ Len(outcomes') = Len(outcomes) + 1
  /\ ~Outcome.ok
  /\ Outcome.err.kind \in {"Transport", "Api", "ResponseParse"}

\* C11: each API operation issues exactly one HTTP request and no request is
\* sent a second time: a step of the program sends at most one request and
\* only when none is in flight, every request gets exactly one outcome, and
\* the requests of a command other than the dashboard are all different.
\* After a Transport, Api or ResponseParse error the operation returns that
\* error; a command other than the dashboard then sends nothing further, run()
\* returns the error and the process exits with a non-zero code.  At no point
\* are two requests of one invocation in flight together.
C11_OneRequestNoRetry ==
  /\ [](Cardinality(inflight) <= 1)
  /\ [](Len(outcomes) + Cardinality(inflight) = Len(sent))
  /\ [](~IsDashboard =>
          \A i, j \in 1..Len(sent) : i # j => sent[i] # sent[j])
  /\ [][/\ Len(sent') <= Len(sent) + 1
        /\ SubSeq(sent', 1, Len(sent)) = sent
        /\ Len(sent') > Len(sent) => inflight' = {Len(sent')} /\ inflight' # inflight
        /\ Len(outcomes') > Len(outcomes) => inflight \ inflight' # {}]_vars
  /\ [][OperationFailed /\ ~IsDashboard =>
          /\ sent' = sent
          /\ inflight' = {}
          /\ pc' = "done"
          /\ result' = Some(Outcome)
          /\ exit_code(result'.val) # 0]_vars
  /\ [][pc = "done" => sent' = sent /\ result' = result]_vars

\* the GET of a put has failed with an Api error: nothing was sent after it
\* and run() has returned the error
C11_Witness ==
  /\ argv.command.cmd = "put"
  /\ pc = "done"
  /\ Len(sent) = 1
  /\ sent[1].method = "GET"
  /\ inflight = {}
  /\ Len(outcomes) = 1
  /\ HasKind(outcomes[1], "Api")
  /\ result = Some(outcomes[1])
  /\ exit_code(result.val) = 2

(***************************************************************************)
(* Task as a pure data type: its JSON round trip, and the read-modify-     *)
(* write of put (get_task's response decoded, then build_put_payload).     *)
(***************************************************************************)
\* the fields of a task that Task does not name
Extensions ==
  {EmptyMap,
   T("snooze") :> JObj(T("until") :> JNum(1)),
   (T("a") :> JNum(0)) @@ (T("tags") :> JArr(<<JStr(T("x \"y\"")), JNull>>))
     @@ (T("completed") :> JBool(TRUE)) @@ (T("parent") :> JNull)
     @@ (T("Title") :> JStr(T("other")))}

Tasks ==
  {[id |-> TaskId, title |-> title, status |-> status, due |-> None,
    priority |-> priority, notes |-> notes, deleted |-> deleted, extra |-> extra] :
     title \in {T("t"), T("say \"hi\" \\ bye")},
     status \in {None, Some(T("DONE"))},
     priority \in {None, Some(T("P3"))},
     notes \in {None, Some(<<>>)},
     deleted \in BOOLEAN,
     extra \in Extensions}

\* bodies of a get_task response: a task with the fields Task names all
\* present, or with only id and title, followed by the extension fields
FetchedObjects ==
  {((T("id") :> JNum(TaskId)) @@ (T("title") :> JStr(T("t"))) @@ named) @@ extra :
     named \in {EmptyMap,
                (T("status") :> JStr(T("NEW"))) @@ (T("due") :> JNull)
                  @@ (T("priority") :> JStr(T("P3"))) @@ (T("notes") :> JStr(T("n")))
                  @@ (T("deleted") :> JBool(FALSE))},
     extra \in Extensions}

FetchedBodies ==
  {to_string(JObj(o)) : o \in FetchedObjects}
  \cup {T(" {\"id\":7,\"title\":\"t\",\"status\":\"done\",\"snooze\":{\"until\":1},\"a\":0} ")}

TaskOverrides ==
  SeqsUpTo({T("a={\"c\":2}"), T("snooze=null"), T("title=x"), T("new=1")},
           MaxBuildSet) \ {<<>>}

\* a task with a status, a deleted flag and extension fields
TaskWith(id, status, deleted, extra) ==
  [id |-> id, title |-> T("t"), status |-> status, due |-> None,
   priority |-> None, notes |-> None, deleted |-> deleted, extra |-> extra]

\* one extension field, or none when value is None
OptField(key, value) ==
  IF IsSome(value) THEN T(key) :> value.val ELSE EmptyMap

\* tasks with every combination of the completion signals, set, unset and
\* of the wrong type
CompletionTasks ==
  {TaskWith(TaskId, status, FALSE,
            OptField("completionStatus", completionStatus)
              @@ OptField("completed", completed)
              @@ OptField("isComplete", isComplete)) :
     status \in {None, Some(T("done")), Some(T("Finished")), Some(T("COMPLETE")),
                 Some(T("completed")), Some(T("NEW")), Some(T("DONE "))},
     completionStatus \in {None, Some(JStr(T("Done"))), Some(JStr(T("open"))),
                           Some(JBool(TRUE))},
     completed \in {None, Some(JBool(TRUE)), Some(JBool(FALSE)),
                    Some(JStr(T("true")))},
     isComplete \in {None, Some(JBool(TRUE)), Some(JBool(FALSE))}}

\* tasks that are active, deleted, archived, cancelled, or nearly so
ListedTasks ==
  {TaskWith(1, Some(T("NEW")), FALSE, EmptyMap),
   TaskWith(2, Some(T("NEW")), TRUE, EmptyMap),
   TaskWith(3, Some(T("ARCHIVED")), FALSE, EmptyMap),
   TaskWith(4, Some(T("CANCELLED")), FALSE, EmptyMap),
   TaskWith(5, None, FALSE, T("status2") :> JStr(T("ARCHIVED"))),
   TaskWith(6, Some(T("archived")), FALSE, EmptyMap)}

InitTask ==
  /\ input \in [fn : {"task_round_trip"}, task : Tasks]
               \cup [fn : {"task_is_completed"}, task : CompletionTasks]
               \cup [fn : {"list_tasks"}, tasks : SeqsUpTo(ListedTasks, MaxTasks),
                     filter : {"Active", "All"}]
               \cup [fn : {"read_modify_write"}, response_body : FetchedBodies,
                     args : [task_id : {TaskId}, json : {None},
                             set : TaskOverrides, notification_key : {None}]]
  /\ output = None
  /\ Idle

\* a Task is serialized to JSON text and the text is decoded as a Task
TaskRoundTrip ==
  /\ input.fn = "task_round_trip"
  /\ Returns(FromStrAs("Task", to_string(TaskToValue(input.task))))

\* build_put_payload without --json, get_task having received response_body
\* with status 200
ReadModifyWrite ==
  /\ input.fn = "read_modify_write"
  /\ Returns(build_put_payload(input.args,
                               FromStrAs("Task", input.response_body)))

\* task_is_completed on one task
TaskIsCompleted ==
  /\ input.fn = "task_is_completed"
  /\ Returns(task_is_completed(input.task))

\* list_tasks, its request having been answered with the tasks of input
ListTasks ==
  /\ input.fn = "list_tasks"
  /\ Returns(list_tasks_result(input.tasks, input.filter))

NextTask == TaskRoundTrip \/ ReadModifyWrite \/ TaskIsCompleted \/ ListTasks

SpecTask == InitTask /\ [][NextTask]_vars

\* the names of the fields the client models explicitly
NamedTaskFields ==
  {T("id"), T("title"), T("status"), T("due"), T("priority"), T("notes"),
   T("deleted")}

\* the object of the GET response, as the server wrote it
FetchedObject == FromStr(Trim(input.response_body)).val.o

\* C12: in a read-modify-write put (only --set overrides given), every field
\* of the fetched task that the client does not model explicitly appears in
\* the PUT body with the value it had in the GET response, unless an override
\* names that key, and then with the override's value; and serializing a Task
\* and decoding it back yields an equal Task, extension fields included.
C12_UnmodelledFieldsSurvive ==
  /\ (input.fn = "read_modify_write" /\ IsSome(output)) =>
       /\ output.val.ok
       /\ \A key \in DOMAIN FetchedObject \ NamedTaskFields :
            /\ key \in DOMAIN output.val.val.o
            /\ output.val.val.o[key] =
                 IF key \in OverrideKeys THEN OverrideValue(key)
                 ELSE FetchedObject[key]
  /\ (input.fn = "task_round_trip" /\ IsSome(output)) =>
       output.val = Ok(input.task)

\* a task with an object, an array, a null and a boolean among its extension
\* fields has been fetched and title overridden: the PUT body holds them all
C12_Witness ==
  /\ input.fn = "read_modify_write"
  /\ input.args.set = <<T("title=x")>>
  /\ T("tags") \in DOMAIN FetchedObject
  /\ T("due") \notin DOMAIN FetchedObject
  /\ IsSome(output)
  /\ output.val.ok
  /\ output.val.val.o[T("title")] = JStr(T("x"))
  /\ output.val.val.o[T("tags")] = JArr(<<JStr(T("x \"y\"")), JNull>>)
  /\ output.val.val.o[T("parent")] = JNull
  /\ output.val.val.o[T("completed")] = JBool(TRUE)
  /\ output.val.val.o[T("due")] = JNull

\* two texts are equal ignoring the case of their ASCII letters
EqualsIgnoringCase(a, b) ==
  /\ Len(a) = Len(b)
  /\ \A i \in 1..Len(a) : UpperOf(a[i]) = UpperOf(b[i])

IsCompletionWord(text) ==
  \E word \in {T("COMPLETED"), T("COMPLETE"), T("DONE"), T("FINISHED")} :
    EqualsIgnoringCase(text, word)

\* the extension field key of task is the boolean true
ExtensionIsTrue(task, key) ==
  /\ T(key) \in DOMAIN task.extra
  /\ task.extra[T(key)] = JBool(TRUE)

\* at least one of the four completion signals is present
HasCompletionSignal(task) ==
  \/ IsSome(task.status) /\ IsCompletionWord(task.status.val)
  \/ /\ T("completionStatus") \in DOMAIN task.extra
     /\ task.extra[T("completionStatus")].t = "str"
     /\ IsCompletionWord(task.extra[T("completionStatus")].s)
  \/ ExtensionIsTrue(task, "completed")
  \/ ExtensionIsTrue(task, "isComplete")

\* C13: task_is_completed(task) is true exactly when at least one of these
\* holds: the status is COMPLETED, COMPLETE, DONE or FINISHED ignoring case;
\* the extension field completionStatus is a string of that set ignoring
\* case; the extension field completed is the boolean true; the extension
\* field isComplete is the boolean true.
C13_CompletedExactlyOnSignal ==
  (input.fn = "task_is_completed" /\ IsSome(output)) =>
    (output.val <=> HasCompletionSignal(input.task))

\* the indices of the fetched tasks that are neither deleted, archived nor
\* cancelled
ActiveIndices ==
  {i \in 1..Len(input.tasks) :
     /\ input.tasks[i].deleted = FALSE
     /\ input.tasks[i].status \notin {Some(T("ARCHIVED")), Some(T("CANCELLED"))}}

\* C14: list_tasks with the Active filter returns exactly the fetched tasks,
\* in fetched order, whose deleted flag is false and whose status is neither
\* ARCHIVED nor CANCELLED; with the All filter it returns the fetched list
\* unchanged.
C14_ActiveFilter ==
  (input.fn = "list_tasks" /\ IsSome(output)) =>
    /\ input.filter = "All" => output.val = input.tasks
    /\ input.filter = "Active" =>
         /\ Len(output.val) = Cardinality(ActiveIndices)
         /\ \A i \in ActiveIndices :
              output.val[Cardinality({j \in ActiveIndices : j <= i})] = input.tasks[i]

\* a deleted, an active and an archived task are fetched with the Active
\* filter: the active one alone is returned
C14_Witness ==
  /\ input.fn = "list_tasks"
  /\ input.filter = "Active"
  /\ Len(input.tasks) = 3
  /\ input.tasks[1].deleted
  /\ input.tasks[2].id = 1
  /\ input.tasks[3].status = Some(T("ARCHIVED"))
  /\ output = Some(<<input.tasks[2]>>)

IsList == argv # <<>> /\ argv.command.cmd = "list"

\* the tasks decoded from the response to GET tasks
Fetched == outcomes[1].val

\* the places of the fetched list that the Active/All filter keeps
NarrowedIndices ==
  {i \in 1..Len(Fetched) :
     \/ argv.command.all
     \/ /\ ~Fetched[i].deleted
        /\ Fetched[i].status \notin {Some(T("ARCHIVED")), Some(T("CANCELLED"))}}

\* the places of the narrowed list that the completion filter keeps
ListedIndices ==
  {i \in NarrowedIndices :
     \/ argv.command.filter = None
     \/ argv.command.filter = Some("Open") /\ ~task_is_completed(Fetched[i])
     \/ argv.command.filter = Some("Completed") /\ task_is_completed(Fetched[i])}

\* C15: in the list command the completion filter (Open/Completed) is applied
\* only to the list that the Active/All filter has already narrowed, and only
\* after the fetch has succeeded: the list command returns a list only in the
\* step that ends a successful fetch, the list holds, in fetched order, the
\* tasks of the narrowed list that the completion filter keeps, and all of
\* the narrowed list when there is no completion filter; a fetch that failed
\* returns its error and no list.
C15_CompletionFilterAfterNarrowing ==
  /\ [](IsList /\ IsSome(result) /\ result.val.ok =>
          /\ Len(outcomes) = 1
          /\ outcomes[1].ok
          /\ Len(result.val.val) = Cardinality(ListedIndices)
          /\ \A i \in ListedIndices :
               result.val.val[Cardinality({j \in ListedIndices : j <= i})] = Fetched[i]
          /\ argv.command.filter = None =>
               Len(result.val.val) = Cardinality(NarrowedIndices))
  /\ [](IsList /\ Len(outcomes) = 1 /\ ~outcomes[1].ok => result = Some(outcomes[1]))
  /\ [][IsList /\ IsNone(result) /\ IsSome(result') /\ result'.val.ok =>
          /\ Len(outcomes') = Len(outcomes) + 1
          /\ outcomes'[Len(outcomes')].ok]_vars

\* a deleted, a completed, an archived and an open task have been fetched by
\* list --filter completed: the completed task alone is returned
C15_Witness ==
  /\ IsList
  /\ ~argv.command.all
  /\ argv.command.filter = Some("Completed")
  /\ pc = "done"
  /\ Len(outcomes) = 1
  /\ outcomes[1].ok
  /\ Len(Fetched) = 4
  /\ Fetched[1].deleted
  /\ Fetched[3].status = Some(T("ARCHIVED"))
  /\ result = Some(Ok(<<Fetched[2]>>))

\* the create command, its client built and run() past its first step, with
\* a due date that is not blank
Creating ==
  /\ argv # <<>>
  /\ argv.command.cmd = "create"
  /\ ClientBuilt
  /\ pc # "start"
  /\ ~(IsSome(argv.command.due) /\ Trim(argv.command.due.val) = <<>>)

Total == argv.command.time_chunks_required
MinGiven == argv.command.min_chunk_size
MaxGiven == argv.command.max_chunk_size

\* the fields of the body of the create request
CreateBody == sent[1].body.val.o
\* one of them, None when the body does not have it
CreateField(key) ==
  IF T(key) \in DOMAIN CreateBody THEN Some(CreateBody[T(key)]) ELSE None
\* the body has the number fields low and high, and low is at most high
AtMost(low, high) ==
  /\ IsSome(CreateField(low)) /\ CreateField(low).val.t = "num"
  /\ IsSome(CreateField(high)) /\ CreateField(high).val.t = "num"
  /\ CreateField(low).val.n <= CreateField(high).val.n

\* C16: for the create command, a total timeChunksRequired = T given and a
\* chunk bound omitted, the omitted bound is minChunkSize = 1 respectively
\* maxChunkSize = T in the request that is sent, a given bound is carried as
\* given, and with T at least 1 and no bound given the request is sent; with
\* no total and no bound given the request is sent with none of the three
\* fields.
C16_ChunkDefaults ==
  Creating =>
    /\ (IsSome(Total) /\ Len(sent) >= 1) =>
         /\ CreateField("timeChunksRequired") = Some(JNum(Total.val))
         /\ CreateField("minChunkSize") =
              Some(JNum(IF IsSome(MinGiven) THEN MinGiven.val ELSE 1))
         /\ CreateField("maxChunkSize") =
              Some(JNum(IF IsSome(MaxGiven) THEN MaxGiven.val ELSE Total.val))
    /\ (IsSome(Total) /\ Total.val >= 1 /\ IsNone(MinGiven) /\ IsNone(MaxGiven)) =>
         Len(sent) >= 1
    /\ (IsNone(Total) /\ IsNone(MinGiven) /\ IsNone(MaxGiven)) =>
         /\ Len(sent) >= 1
         /\ DOMAIN CreateBody
              \cap {T("timeChunksRequired"), T("minChunkSize"), T("maxChunkSize")} = {}

\* create with a total of 4 and no bound has sent POST tasks with the bounds
\* 1 and 4
C16_Witness ==
  /\ Creating
  /\ Total = Some(4)
  /\ IsNone(MinGiven)
  /\ IsNone(MaxGiven)
  /\ Len(sent) = 1
  /\ sent[1].method = "POST"
  /\ CreateField("minChunkSize") = Some(JNum(1))
  /\ CreateField("maxChunkSize") = Some(JNum(4))

\* the chunk bounds after the omitted ones are filled in for a given total
MinResolved == IF IsSome(MinGiven) THEN MinGiven.val ELSE 1
MaxResolved == IF IsSome(MaxGiven) THEN MaxGiven.val ELSE Total.val

\* the first of the four chunk checks that fails, 0 when none does
FailedChunkCheck ==
  IF IsNone(Total)
  THEN IF IsSome(MinGiven) \/ IsSome(MaxGiven) THEN 1
       ELSE 0
  ELSE IF MinResolved > Total.val THEN 2
       ELSE IF MaxResolved > Total.val THEN 3
       ELSE IF MinResolved > MaxResolved THEN 4
       ELSE 0

\* what the message of each check starts with
ChunkCheckMessage ==
  <<T("Invalid chunk options: --min-chunk-size/--max-chunk-size require --time-chunks-required."),
    T("Invalid --min-chunk-size value: "),
    T("Invalid --max-chunk-size value: "),
    T("Invalid chunk bounds: --min-chunk-size (")>>

\* C17: the create command fails with Invalid-Input, sending no request, when
\* a min or max chunk bound is given without a total, when the resolved min
\* exceeds the total, when the resolved max exceeds the total, or when the
\* resolved min exceeds the resolved max; the checks run in that order, each
\* with its own message, and otherwise the request is sent, so every create
\* request sent with a total T has min <= max <= T.
C17_ChunkValidation ==
  Creating =>
    /\ FailedChunkCheck # 0 =>
         /\ sent = <<>>
         /\ IsSome(result)
         /\ IsInvalidInput(result.val)
         /\ Matches(result.val.err.message, 1, ChunkCheckMessage[FailedChunkCheck])
    /\ FailedChunkCheck = 0 => Len(sent) >= 1
    /\ (Len(sent) >= 1 /\ IsSome(Total)) =>
         /\ AtMost("minChunkSize", "maxChunkSize")
         /\ AtMost("maxChunkSize", "timeChunksRequired")

\* create with a total of 2, a min of 3 and a max of 1 has failed on the
\* min against the total, the first of the two checks that fail
C17_Witness ==
  /\ Creating
  /\ Total = Some(2)
  /\ MinGiven = Some(3)
  /\ MaxGiven = Some(1)
  /\ pc = "done"
  /\ sent = <<>>
  /\ result = Some(Err(InvalidInput(
       T("Invalid --min-chunk-size value: 3 exceeds --time-chunks-required (2)."))))

Invoked == argv # <<>>

\* the API key is absent or has nothing but white space
KeyMissing ==
  \/ argv.api_key = None
  \/ \A i \in 1..Len(argv.api_key.val) : argv.api_key.val[i] = " "

\* the API key without the white space around it
Inked(text) == {i \in 1..Len(text) : text[i] # " "}
Stripped(text) ==
  SubSeq(text, Least(Inked(text)),
         CHOOSE i \in Inked(text) : \A j \in Inked(text) : j <= i)
KeyGiven == Stripped(argv.api_key.val)

BaseUrlParses == IsSome(ParseUrl(argv.base_url))

\* C18: HttpReclaimApi::new fails with the Missing-Credential error when the
\* API key is absent or blank after trimming, and with the Invalid-Base-URL
\* error when the base URL does not parse; the failure is the first step of
\* the run, which ends with that error, and no request of any command is
\* sent; every request of a constructed client carries the trimmed key as
\* bearer token.
C18_Construction ==
  /\ [](Invoked /\ KeyMissing /\ pc # "start" =>
          pc = "done" /\ result = Some(Err(MissingApiKey)) /\ sent = <<>>)
  /\ [](Invoked /\ ~KeyMissing /\ ~BaseUrlParses /\ pc # "start" =>
          /\ pc = "done"
          /\ result = Some(Err(InvalidBaseUrl(argv.base_url)))
          /\ sent = <<>>)
  /\ [](Invoked /\ (KeyMissing \/ ~BaseUrlParses) => ~ClientBuilt)
  /\ [](Invoked /\ ~KeyMissing /\ BaseUrlParses =>
          /\ ClientBuilt
          /\ \A i \in 1..Len(sent) : sent[i].bearer = KeyGiven)
  /\ [][Invoked /\ pc = "start" /\ (KeyMissing \/ ~BaseUrlParses) =>
          pc' = "done" /\ sent' = <<>> /\ inflight' = {}]_vars

\* create with no API key has ended with Missing-Credential and no request
C18_Witness ==
  /\ Invoked
  /\ argv.command.cmd = "create"
  /\ argv.api_key = None
  /\ pc = "done"
  /\ result = Some(Err(MissingApiKey))
  /\ sent = <<>>

(***************************************************************************)
(* The base URL and the request URLs as pure functions.                    *)
(***************************************************************************)
\* Url::as_str for a URL without query or fragment
UrlText(url) == url.origin \o url.path

BaseUrls ==
  {origin \o rest :
     origin \in {T("https://h"), T("http://h.io")},
     rest \in {<<>>, T("/"), T("//"), T("/api"), T("/api/"), T("/api//"),
               T("/api///"), T("/a/b"), T("/a/b/")}}
  \cup {T("not a url"), T("h/api"), T("https://")}

RelativePaths == {T("tasks"), T("tasks/123"), T("/tasks/123"), T("//tasks")}

\* the operations of the client on one task, and on the tasks
KeyedOperations == {"put_task", "patch_task", "delete_task"}
PlainOperations == {"list_tasks", "get_task", "create_task"}

OperationKeys ==
  {None, Some(<<>>), Some(T("  ")), Some(T("notif-123")), Some(T(" n 1 ")),
   Some(T("a&b=c"))}

InitUrl ==
  /\ input \in [fn : {"normalize_base_url"}, raw : BaseUrls]
               \cup [fn : {"request"}, raw : BaseUrls, path : RelativePaths]
               \cup [fn : KeyedOperations \cup PlainOperations,
                     raw : {T("https://h/api"), T("https://h/api/")},
                     notification_key : OperationKeys]
  /\ output = None
  /\ Idle

\* the URL of the request that a client for the base URL raw builds for path,
\* the error of HttpReclaimApi::new when there is no client
RequestUrl(api, path) ==
  IF api.ok THEN Ok(request(api.val, "request", "GET", path).url) ELSE api

NormalizeBaseUrl ==
  /\ input.fn = "normalize_base_url"
  /\ Returns(normalize_base_url(input.raw))

BuildRequest ==
  /\ input.fn = "request"
  /\ Returns(RequestUrl(HttpReclaimApi_new(Some(T("key")), input.raw), input.path))

\* the request of an operation of the client, with a body where it has one
OperationRequest(api, op, notification_key) ==
  IF op = "put_task"
  THEN put_task_request(api, TaskId, JObj(EmptyMap), notification_key)
  ELSE IF op = "patch_task"
  THEN patch_task_request(api, TaskId, JObj(EmptyMap), notification_key)
  ELSE IF op = "delete_task"
  THEN delete_task_request(api, TaskId, notification_key)
  ELSE IF op = "list_tasks" THEN list_tasks_request(api)
  ELSE IF op = "get_task" THEN get_task_request(api, TaskId)
  ELSE WithJson(request(api, "create_task", "POST", T("tasks")), JObj(EmptyMap))

BuildOperation ==
  /\ input.fn \in KeyedOperations \cup PlainOperations
  /\ Returns(OperationRequest(HttpReclaimApi_new(Some(T("key")), input.raw).val,
                              input.fn, input.notification_key))

NextUrl == NormalizeBaseUrl \/ BuildRequest \/ BuildOperation

SpecUrl == InitUrl /\ [][NextUrl]_vars

Normalized == input.fn = "normalize_base_url" /\ IsSome(output) /\ output.val.ok
Requested == input.fn = "request" /\ IsSome(output) /\ output.val.ok

\* the normalized path ends with a path separator
PathEndsWithSeparator ==
  Normalized => output.val.val.path[Len(output.val.val.path)] = "/"

\* normalizing the text of the normalized URL gives the same URL
NormalizeIdempotent ==
  Normalized => normalize_base_url(UrlText(output.val.val)) = output.val

\* a base URL that differs from the one given only in its trailing slashes
\* gives the same request URL for the same path
SameForTrailingSlashes ==
  Requested =>
    \A other \in BaseUrls :
      TrimEndSlashes(other) = TrimEndSlashes(input.raw) =>
        RequestUrl(HttpReclaimApi_new(Some(T("key")), other), input.path) = output.val

\* a base without trailing slash and a path without leading slash are joined
\* by one separator
JoinedBySeparator ==
  (Requested /\ input.raw[Len(input.raw)] # "/" /\ input.path[1] # "/") =>
    output.val.val = input.raw \o <<"/">> \o input.path

\* the request URL starts with the base URL, whatever the path starts with
LeadingSlashKeepsBase ==
  Requested => Matches(output.val.val, 1, TrimEndSlashes(input.raw))

\* C19: after normalization the base URL path always ends with a path
\* separator, normalizing an already normalized URL changes nothing, base URLs
\* that differ only in caller-supplied trailing slashes yield the same request
\* URL for the same relative path (a base of .../api and a path tasks/123
\* gives .../api/tasks/123), and a leading slash on the relative path never
\* discards the base path.
C19_BaseUrlNormalization ==
  /\ PathEndsWithSeparator
  /\ NormalizeIdempotent
  /\ SameForTrailingSlashes
  /\ JoinedBySeparator
  /\ LeadingSlashKeepsBase

Operated ==
  /\ input.fn \in KeyedOperations \cup PlainOperations
  /\ IsSome(output)

\* a notification key is given and is not blank
KeyCarried ==
  /\ IsSome(input.notification_key)
  /\ Inked(input.notification_key.val) # {}

\* the URL of the operation without any query
OperationUrl ==
  T("https://h/api/tasks")
  \o (IF input.fn \in {"list_tasks", "create_task"} THEN <<>> ELSE T("/7"))

\* C20: put_task, patch_task and delete_task add the query parameter
\* notificationKey=<trimmed key> (form-encoded; as it is for a key of letters,
\* digits and '-') to the request exactly when a notification key is given and
\* is non-blank after trimming; with an absent or blank key the request URL
\* has no query at all; list, get and create task requests never carry the
\* parameter.
C20_NotificationKey ==
  Operated =>
    /\ (input.fn \in KeyedOperations /\ KeyCarried) =>
         /\ output.val.url =
              OperationUrl \o T("?notificationKey=")
              \o UrlEncode(Stripped(input.notification_key.val))
         /\ input.notification_key = Some(T("notif-123")) =>
              output.val.url = OperationUrl \o T("?notificationKey=notif-123")
    /\ ~(input.fn \in KeyedOperations /\ KeyCarried) =>
         output.val.url = OperationUrl

\* patch_task with the key " n 1 " has built a request whose URL carries the
\* key without the white space around it
C20_Witness ==
  /\ Operated
  /\ input.fn = "patch_task"
  /\ input.notification_key = Some(T(" n 1 "))
  /\ input.raw = T("https://h/api")
  /\ output.val.method = "PATCH"
  /\ output.val.url = T("https://h/api/tasks/7?notificationKey=n+1")

(***************************************************************************)
(* The event request builders as pure functions, with flags that are       *)
(* absent, blank or given and blobs and overrides that name identity keys. *)
(***************************************************************************)
EventBlobs ==
  {None, Some(T("{}")), Some(T("{\"hash\":\"h\",\"eventId\":\"e2\"}")),
   Some(T("{\"type\":\"X\",\"calendarId\":9}")), Some(T("{\"notes\":\"n\"}")),
   Some(T("[1]"))}

EventSets ==
  {<<>>, <<T("type=Y")>>, <<T("calendarId=5"), T("policyId=p")>>,
   <<T("location=home")>>, <<T("novalue")>>}

\* start and end of an update: neither, both, or one of them
UpdateRanges ==
  {<<None, None>>,
   <<Some(T("2026-02-21T18:30:00Z")), Some(T("2026-02-21T19:00:00Z"))>>,
   <<Some(T("2026-02-21T18:30:00Z")), None>>}

EventUpdateArgs ==
  {[UpdateEventBase EXCEPT !.policy_id = policy, !.title = title,
                           !.description = description, !.priority = priority,
                           !.start = range[1], !.end = range[2],
                           !.json = json, !.set = set] :
     policy \in {DEFAULT_POLICY_ID, T(" ")},
     title \in {None, Some(T(" ")), Some(T("Retro"))},
     description \in {None, Some(<<>>)},
     priority \in {None, Some(T("P2"))},
     range \in UpdateRanges,
     json \in EventBlobs,
     set \in EventSets}

EventCreateArgs ==
  {[CreateEventBase EXCEPT !.start = T("2026-02-21T18:30:00Z"),
                           !.policy_id = policy, !.json = json, !.set = set] :
     policy \in {DEFAULT_POLICY_ID, T(" ")},
     json \in EventBlobs,
     set \in EventSets}

InitEvents ==
  /\ input \in [fn : {"build_event_update_request"}, args : EventUpdateArgs]
               \cup [fn : {"build_event_create_request"}, args : EventCreateArgs]
               \cup [fn : {"build_event_delete_request"}, args : EventsDeleteCommands]
  /\ output = None
  /\ Idle

EventUpdate ==
  /\ input.fn = "build_event_update_request"
  /\ Returns(build_event_update_request(input.args))

EventCreate ==
  /\ input.fn = "build_event_create_request"
  /\ Returns(build_event_create_request(input.args))

EventDelete ==
  /\ input.fn = "build_event_delete_request"
  /\ Returns(build_event_delete_request(input.args))

NextEvents == EventUpdate \/ EventCreate \/ EventDelete

SpecEvents == InitEvents /\ [][NextEvents]_vars

Updated == input.fn = "build_event_update_request" /\ IsSome(output)

\* the flag of an update is given and not blank
FlagGiven(flag) == IsSome(flag) /\ Inked(flag.val) # {}

\* the keys that the flags of an update give beyond the identity of the event
FlagKeysGiven ==
  {key \in {T("title"), T("description"), T("location"), T("priority"),
            T("visibility"), T("transparency"), T("dateRange")} :
     \/ key = T("title") /\ FlagGiven(input.args.title)
     \/ key = T("description") /\ FlagGiven(input.args.description)
     \/ key = T("location") /\ FlagGiven(input.args.location)
     \/ key = T("priority") /\ IsSome(input.args.priority)
     \/ key = T("visibility") /\ IsSome(input.args.visibility)
     \/ key = T("transparency") /\ IsSome(input.args.transparency)
     \/ key = T("dateRange") /\ IsSome(input.args.start) /\ IsSome(input.args.end)}

IdentityFields ==
  {T("type"), T("hash"), T("policyId"), T("calendarId"), T("eventId")}

\* the policy id, the date range, the blob and the overrides are all accepted
UpdateWellFormed ==
  /\ Inked(input.args.policy_id) # {}
  /\ IsSome(input.args.start) = IsSome(input.args.end)
  /\ IsSome(input.args.start) =>
       Inked(input.args.start.val) # {} /\ Inked(input.args.end.val) # {}
  /\ IsSome(input.args.json) =>
       /\ IsSome(FromStr(Trim(input.args.json.val)))
       /\ FromStr(Trim(input.args.json.val)).val.t = "obj"
  /\ \A i \in 1..Len(input.args.set) : parse_set_entry(input.args.set[i]).ok

\* the keys of the merged action that are not identity keys
ChangeKeys ==
  (FlagKeysGiven \cup DOMAIN BlobStage \cup OverrideKeys) \ IdentityFields

\* C21: build_event_update_request succeeds only if the action merged from
\* flags, --json and --set has at least one key other than type, hash,
\* policyId, calendarId and eventId; otherwise it fails with Invalid-Input
\* (with well-formed arguments: exactly then, with the message that a field
\* change is required), which covers every flag absent or blank and --json
\* and --set naming only identity keys.
C21_UpdateNeedsChange ==
  Updated =>
    /\ ~output.val.ok => IsInvalidInput(output.val)
    /\ output.val.ok =>
         /\ UpdateWellFormed
         /\ ChangeKeys # {}
         /\ DOMAIN output.val.val.o[T("actionsTaken")].a[1].o \ IdentityFields
              = ChangeKeys
    /\ (UpdateWellFormed /\ ChangeKeys = {}) =>
         output.val = Err(InvalidInput(
                        T("Event update requires at least one field change.")))
    /\ (UpdateWellFormed /\ ChangeKeys # {}) => output.val.ok

\* an update whose title is blank, whose blob names hash and eventId and
\* whose override names type has been refused for want of a field change
C21_Witness ==
  /\ Updated
  /\ input.args.title = Some(T(" "))
  /\ input.args.description = Some(<<>>)
  /\ IsNone(input.args.priority)
  /\ IsNone(input.args.start)
  /\ input.args.json = Some(T("{\"hash\":\"h\",\"eventId\":\"e2\"}"))
  /\ input.args.set = <<T("type=Y")>>
  /\ output.val = Err(InvalidInput(
                    T("Event update requires at least one field change.")))

\* an event request has been built by create, update or delete
EventBuilt ==
  /\ input.fn \in {"build_event_create_request", "build_event_update_request",
                   "build_event_delete_request"}
  /\ IsSome(output)
  /\ output.val.ok

\* the request is an object with the one field actionsTaken, an array of one
\* object
OneAction ==
  /\ output.val.val.t = "obj"
  /\ DOMAIN output.val.val.o = {T("actionsTaken")}
  /\ output.val.val.o[T("actionsTaken")].t = "arr"
  /\ Len(output.val.val.o[T("actionsTaken")].a) = 1
  /\ output.val.val.o[T("actionsTaken")].a[1].t = "obj"

TheAction == output.val.val.o[T("actionsTaken")].a[1].o

\* the type of action that each builder makes
ActionType ==
  IF input.fn = "build_event_create_request" THEN T("AddEventAction")
  ELSE IF input.fn = "build_event_update_request" THEN T("UpdateEventAction")
  ELSE T("CancelEventAction")

\* the field key of the action holds value
ActionHolds(key, value) ==
  /\ T(key) \in DOMAIN TheAction
  /\ TheAction[T(key)] = value

\* the field key of the action holds what the last stage naming it gives:
\* an override, else the blob, else the value of the builder
ActionHoldsStaged(key, value) ==
  ActionHolds(key, IF T(key) \in OverrideKeys THEN OverrideValue(T(key))
                   ELSE IF T(key) \in DOMAIN BlobStage THEN BlobStage[T(key)]
                   ELSE value)

Applying ==
  /\ Invoked
  /\ argv.command.cmd = "events_apply"
  /\ ClientBuilt
  /\ pc # "start"

\* the JSON value of --json, if it is one
ApplyValue == FromStr(Trim(argv.command.json))

\* --json is a JSON object whose actionsTaken is an array with an element
ApplyAccepted ==
  /\ Inked(argv.command.json) # {}
  /\ IsSome(ApplyValue)
  /\ ApplyValue.val.t = "obj"
  /\ T("actionsTaken") \in DOMAIN ApplyValue.val.o
  /\ ApplyValue.val.o[T("actionsTaken")].t = "arr"
  /\ Len(ApplyValue.val.o[T("actionsTaken")].a) >= 1

\* C23: build_events_apply_request succeeds, returning the caller's object
\* unchanged, exactly when the --json value is a JSON object whose
\* actionsTaken field is an array with at least one element: the object is
\* then the body of the one request sent first; a blank value, invalid JSON,
\* a non-object, a missing actionsTaken, a non-array actionsTaken or an empty
\* array each fail with Invalid-Input and nothing is sent.
C23_ApplyNeedsActions ==
  Applying =>
    /\ ApplyAccepted =>
         /\ Len(sent) >= 1
         /\ sent[1].method = "POST"
         /\ sent[1].body = Some(ApplyValue.val)
    /\ ~ApplyAccepted =>
         /\ sent = <<>>
         /\ pc = "done"
         /\ IsSome(result)
         /\ IsInvalidInput(result.val)

\* events apply with an object of two actions and a note has sent that
\* object, the note included
C23_Witness ==
  /\ Applying
  /\ ApplyAccepted
  /\ Len(sent) = 1
  /\ T("note") \in DOMAIN sent[1].body.val.o
  /\ sent[1].body.val.o[T("note")] = JNull
  /\ Len(sent[1].body.val.o[T("actionsTaken")].a) = 2

(***************************************************************************)
(* The dashboard (src/src/dashboard.rs): DashboardApp and its key          *)
(* handling, the terminal, run_dashboard and run_event_loop.               *)
(***************************************************************************)
DASHBOARD_HINT ==
  T("j/k move  g/G jump  r refresh  ? help  :q/Esc/Ctrl+C quit")

\* KeyCode::Char(c), and the key codes without a character
Char(c) == [t |-> "Char", c |-> c]
Named(name) == [t |-> name]

\* KeyEvent: code, the CONTROL and ALT modifiers, and the kind (Press,
\* Repeat or Release)
KeyEvent(code, ctrl, alt, kind) ==
  [code |-> code, ctrl |-> ctrl, alt |-> alt, kind |-> kind]

IsChar(key, chars) == key.code.t = "Char" /\ key.code.c \in chars

is_quit_key(key) ==
  \/ key.code.t = "Esc"
  \/ key.ctrl /\ IsChar(key, {"c", "C"})

\* DashboardApp::new; selected is list_state.selected(), counted from 0
DashboardApp_new(tasks, filter) ==
  [tasks |-> tasks,
   filter |-> filter,
   selected |-> IF tasks = <<>> THEN None ELSE Some(0),
   show_help |-> FALSE,
   command_buffer |-> <<>>,
   status_message |-> None]

Min(a, b) == IF a <= b THEN a ELSE b

set_status(a, message) == [a EXCEPT !.status_message = Some(message)]

\* "Refreshed: {count} task{s} loaded."
RefreshedMessage(count) ==
  T("Refreshed: ") \o ToDecimal(count) \o T(" task")
  \o (IF count = 1 THEN <<>> ELSE T("s")) \o T(" loaded.")

\* replace_tasks keeping every selection, as if it did not clamp
replace_tasks_unclamped(a, tasks) ==
  [a EXCEPT !.tasks = tasks,
            !.selected = IF tasks = <<>> THEN None
                         ELSE IF IsSome(a.selected) THEN a.selected
                         ELSE Some(0),
            !.status_message = Some(RefreshedMessage(Len(tasks)))]

replace_tasks(a, tasks) ==
  [a EXCEPT !.tasks = tasks,
            !.selected = IF tasks = <<>> THEN None
                         ELSE Some(Min(IF IsSome(a.selected) THEN a.selected.val
                                       ELSE 0,
                                       Len(tasks) - 1)),
            !.status_message = Some(RefreshedMessage(Len(tasks)))]

select_next(a) ==
  [a EXCEPT !.selected =
     IF a.tasks = <<>> THEN None
     ELSE IF IsSome(a.selected) /\ a.selected.val + 1 < Len(a.tasks)
     THEN Some(a.selected.val + 1)
     ELSE Some(0)]

select_previous(a) ==
  [a EXCEPT !.selected =
     IF a.tasks = <<>> THEN None
     ELSE IF IsNone(a.selected) \/ a.selected.val = 0
     THEN Some(Len(a.tasks) - 1)
     ELSE Some(a.selected.val - 1)]

select_first(a) ==
  [a EXCEPT !.selected = IF a.tasks = <<>> THEN None ELSE Some(0)]

select_last(a) ==
  [a EXCEPT !.selected = IF a.tasks = <<>> THEN None
                         ELSE Some(Len(a.tasks) - 1)]

\* what handle_key leaves: the app and the AppAction it returns
Handled(a, action) == [app |-> a, action |-> action]

\* the Enter key of handle_command_key; command is the buffer before it
EnterCommand(cleared, command) ==
  IF command = T(":q") THEN Handled(cleared, "Quit")
  ELSE IF command = T(":")
  THEN Handled(set_status(cleared, T("Command cancelled.")), "None")
  ELSE Handled(set_status(cleared, T("Unknown command: ") \o command), "None")

\* the Backspace key of handle_command_key
PopCommand(popped) ==
  IF popped.command_buffer = <<>>
  THEN Handled(set_status(popped, DASHBOARD_HINT), "None")
  ELSE Handled(popped, "None")

\* the character keys of handle_command_key
PushCommand(pushed) ==
  Handled(pushed, IF pushed.command_buffer = T(":q") THEN "Quit" ELSE "None")

handle_command_key(a, key) ==
  IF key.code.t = "Enter"
  THEN EnterCommand([a EXCEPT !.command_buffer = <<>>], a.command_buffer)
  ELSE IF key.code.t = "Backspace"
  THEN PopCommand([a EXCEPT !.command_buffer = SubSeq(@, 1, Len(@) - 1)])
  ELSE IF key.code.t = "Char" /\ ~(key.ctrl \/ key.alt)
  THEN PushCommand([a EXCEPT !.command_buffer = Append(@, key.code.c)])
  ELSE Handled(a, "None")

\* is_quit_key as it would be if Esc quit in normal mode only
is_quit_key_in_normal_mode(a, key) ==
  \/ key.code.t = "Esc" /\ a.command_buffer = <<>> /\ ~a.show_help
  \/ key.ctrl /\ IsChar(key, {"c", "C"})

\* the first test of handle_key
IsQuit(a, key) == is_quit_key(key)

\* handle_key in normal mode
handle_normal_key(a, key) ==
  IF IsChar(key, {"?"})
  THEN Handled(set_status([a EXCEPT !.show_help = TRUE],
                          T("Help opened. Press ? or Enter to close.")),
               "None")
  ELSE IF IsChar(key, {":"})
  THEN Handled(set_status([a EXCEPT !.command_buffer = T(":")],
                          T("Command mode: type :q to quit.")),
               "None")
  ELSE IF IsChar(key, {"j"}) \/ key.code.t = "Down"
  THEN Handled(select_next(a), "None")
  ELSE IF IsChar(key, {"k"}) \/ key.code.t = "Up"
  THEN Handled(select_previous(a), "None")
  ELSE IF IsChar(key, {"g"}) \/ key.code.t = "Home"
  THEN Handled(select_first(a), "None")
  ELSE IF IsChar(key, {"G"}) \/ key.code.t = "End"
  THEN Handled(select_last(a), "None")
  ELSE IF IsChar(key, {"r"}) THEN Handled(a, "Refresh")
  ELSE Handled(a, "None")

\* handle_key with the help panel open as it would be if the other keys
\* were handled as in normal mode
handle_help_key_through(a, key) ==
  IF IsChar(key, {"?"}) \/ key.code.t = "Enter"
  THEN Handled([a EXCEPT !.show_help = FALSE], "None")
  ELSE handle_normal_key(a, key)

\* handle_key with the help panel open
handle_help_key(a, key) ==
  IF IsChar(key, {"?"}) \/ key.code.t = "Enter"
  THEN Handled([a EXCEPT !.show_help = FALSE], "None")
  ELSE Handled(a, "None")

handle_key(a, key) ==
  IF IsQuit(a, key) THEN Handled(a, "Quit")
  ELSE IF a.command_buffer # <<>> THEN handle_command_key(a, key)
  ELSE IF a.show_help THEN handle_help_key(a, key)
  ELSE handle_normal_key(a, key)

\* the text of the io::Error of a failed terminal operation
IoError == T("io failure")

map_tui_error(context, error) == Output(T(context) \o T(": ") \o error)

\* what setup_terminal and restore_terminal leave: the terminal and the
\* Result they return
Terminal(term, res) == [terminal |-> term, result |-> res]

\* setup_terminal; failing is the step that fails (1 enable_raw_mode,
\* 2 EnterAlternateScreen, 3 Terminal::new, 4 clear), 0 when none does.  A
\* step that fails leaves the terminal as it was.
setup_terminal(term, failing) ==
  IF failing = 1
  THEN Terminal(term, Err(map_tui_error("Failed to enable raw terminal mode", IoError)))
  ELSE IF failing = 2
  THEN Terminal([term EXCEPT !.raw = TRUE],
                Err(map_tui_error("Failed to enter alternate screen", IoError)))
  ELSE IF failing = 3
  THEN Terminal([term EXCEPT !.raw = TRUE, !.alternate = TRUE],
                Err(map_tui_error("Failed to create terminal", IoError)))
  ELSE IF failing = 4
  THEN Terminal([term EXCEPT !.raw = TRUE, !.alternate = TRUE],
                Err(map_tui_error("Failed to clear terminal", IoError)))
  ELSE Terminal([term EXCEPT !.raw = TRUE, !.alternate = TRUE], Ok(<<>>))

\* restore_terminal; failing is the step that fails (1 disable_raw_mode,
\* 2 LeaveAlternateScreen, 3 show_cursor), 0 when none does
restore_terminal(term, failing) ==
  IF failing = 1
  THEN Terminal(term, Err(map_tui_error("Failed to disable raw mode", IoError)))
  ELSE IF failing = 2
  THEN Terminal([term EXCEPT !.raw = FALSE],
                Err(map_tui_error("Failed to leave alternate screen", IoError)))
  ELSE IF failing = 3
  THEN Terminal([term EXCEPT !.raw = FALSE, !.alternate = FALSE],
                Err(map_tui_error("Failed to show cursor", IoError)))
  ELSE Terminal([term EXCEPT !.raw = FALSE, !.alternate = FALSE, !.cursor = TRUE],
                Ok(<<>>))

\* the match of run_dashboard as it would be if the loop's error alone were
\* returned when both fail
dashboard_result_loop_only(looped, restored) ==
  IF ~looped.ok THEN looped ELSE restored

\* the match on (loop_result, restore_result) that ends run_dashboard
dashboard_result(looped, restored) ==
  IF looped.ok /\ restored.ok THEN Ok(<<>>)
  ELSE IF restored.ok THEN looped
  ELSE IF looped.ok THEN restored
  ELSE Err(Output(Display(looped.err)
                  \o T("\nAlso failed to restore terminal state: ")
                  \o Display(restored.err)))

IsNewline(c) == c = "\n"

\* summary.lines().next().unwrap_or("Refresh failed.")
FirstLine(summary) ==
  IF summary = <<>> THEN T("Refresh failed.")
  ELSE SubSeq(summary, 1, FirstWhere(summary, 1, IsNewline) - 1)

\* the Err arm of a refresh as it would be with the whole summary as status
refresh_failed_whole(a, error) ==
  set_status(a, T("Refresh failed: ") \o Display(error))

\* the Err arm of a refresh
refresh_failed(a, error) ==
  set_status(a, T("Refresh failed: ") \o FirstLine(Display(error)))

(***************************************************************************)
(* run_dashboard as a state machine: pc is "list_tasks" (the first fetch   *)
(* is awaited), "setup", "loop", "refresh" (the fetch of a refresh is      *)
(* awaited), "restore" or "returned".                                      *)
(***************************************************************************)
DashboardTask(id) == TaskWith(id, Some(T("NEW")), FALSE, EmptyMap)

\* what list_tasks may return to the dashboard
TaskLists ==
  {<<>>, <<DashboardTask(1)>>, <<DashboardTask(2), DashboardTask(3)>>,
   <<DashboardTask(1), DashboardTask(2), DashboardTask(3)>>}

ListErrors ==
  {Transport(T("Could not connect to the Reclaim API.")),
   Api(500, T("GET https://h/api/tasks\nAPI message: boom"))}

ListResults == {Ok(tasks) : tasks \in TaskLists} \cup {Err(e) : e \in ListErrors}

\* the characters typed, the keys without character, and the key events
TypedChars == {"?", ":", "j", "k", "g", "G", "r", "q", "x"}
NamedKeys ==
  {"Esc", "Enter", "Backspace", "Down", "Up", "Home", "End", "Tab"}

Keys ==
  {KeyEvent(Char(c), FALSE, FALSE, "Press") : c \in TypedChars}
  \cup {KeyEvent(Named(n), FALSE, FALSE, "Press") : n \in NamedKeys}
  \cup {KeyEvent(Char(c), TRUE, FALSE, "Press") : c \in {"c", "C", "r", "q"}}
  \cup {KeyEvent(Char("q"), FALSE, TRUE, "Press"),
        KeyEvent(Char("j"), FALSE, FALSE, "Repeat"),
        KeyEvent(Named("Esc"), FALSE, FALSE, "Release"),
        KeyEvent(Char("j"), FALSE, FALSE, "Release"),
        KeyEvent(Char("r"), FALSE, FALSE, "Release")}

\* what event::poll and event::read give without a key being pressed
QuietEvents == {"timeout", "resize", "focus"}

InitDashboard ==
  /\ input \in [fn : {"run_dashboard"}, include_all : BOOLEAN]
  /\ output = None
  /\ argv = <<>>
  /\ pc = "list_tasks"
  /\ sent = <<>>
  /\ inflight = {}
  /\ response = None
  /\ body = None
  /\ outcomes = <<>>
  /\ result = None
  /\ NoDashboard

\* run_dashboard returns res
DashboardReturns(res) ==
  /\ result' = Some(res)
  /\ pc' = "returned"

\* api.list_tasks(filter).await? at the start of run_dashboard
FirstList(listed) ==
  /\ pc = "list_tasks"
  /\ IF listed.ok
     THEN /\ app' = Some(DashboardApp_new(listed.val,
                           IF input.include_all THEN "All" ELSE "Active"))
          /\ pc' = "setup"
          /\ result' = result
     ELSE /\ DashboardReturns(listed)
          /\ app' = app
  /\ UNCHANGED <<argv, sent, inflight, response, body, outcomes, input, output,
                 terminal, loop_result, restore_result>>

\* the rest of run_dashboard for what setup_terminal has done
AfterSetup(done) ==
  /\ terminal' = done.terminal
  /\ IF done.result.ok
     THEN pc' = "loop" /\ result' = result
     ELSE DashboardReturns(done.result)

\* let mut terminal = setup_terminal()?
SetupTerminal(failing) ==
  /\ pc = "setup"
  /\ AfterSetup(setup_terminal(terminal, failing))
  /\ UNCHANGED <<argv, sent, inflight, response, body, outcomes, input, output,
                 app, loop_result, restore_result>>

\* run_event_loop returns res
LoopReturns(res) ==
  /\ loop_result' = Some(res)
  /\ pc' = "restore"

\* terminal.draw: the frame is drawn and, no cursor position being set, the
\* cursor is hidden
Drawn == terminal' = [terminal EXCEPT !.cursor = FALSE]

\* an iteration of the loop whose draw fails
DrawFails ==
  /\ pc = "loop"
  /\ LoopReturns(Err(map_tui_error("Failed to draw dashboard frame", IoError)))
  /\ UNCHANGED <<argv, sent, inflight, response, body, outcomes, result, input,
                 output, app, terminal, restore_result>>

\* an iteration of the loop whose poll or read fails
InputFails(context) ==
  /\ pc = "loop"
  /\ Drawn
  /\ LoopReturns(Err(map_tui_error(context, IoError)))
  /\ UNCHANGED <<argv, sent, inflight, response, body, outcomes, result, input,
                 output, app, restore_result>>

\* an iteration of the loop in which no key is pressed: the poll times out,
\* or the event is not a key, or the key is released
NoKeyPressed ==
  /\ pc = "loop"
  /\ Drawn
  /\ UNCHANGED <<argv, pc, sent, inflight, response, body, outcomes, result,
                 input, output, app, loop_result, restore_result>>

Quiet(event) ==
  /\ event \in QuietEvents
  /\ NoKeyPressed

KeyReleased(key) ==
  /\ key.kind \notin {"Press", "Repeat"}
  /\ NoKeyPressed

\* the match on what handle_key returned
AfterKey(handled) ==
  /\ app' = Some(handled.app)
  /\ IF handled.action = "Quit" THEN LoopReturns(Ok(<<>>))
     ELSE /\ pc' = IF handled.action = "Refresh" THEN "refresh" ELSE "loop"
          /\ loop_result' = loop_result

\* an iteration of the loop in which a key is pressed or repeated; the
\* command buffer is typed into up to MaxCommand characters
KeyPressed(key) ==
  /\ pc = "loop"
  /\ key.kind \in {"Press", "Repeat"}
  /\ Len(app.val.command_buffer) < MaxCommand
     \/ app.val.command_buffer = <<>>
     \/ key.code.t # "Char"
  /\ Drawn
  /\ AfterKey(handle_key(app.val, key))
  /\ UNCHANGED <<argv, sent, inflight, response, body, outcomes, result, input,
                 output, restore_result>>

\* api.list_tasks(app.filter).await of a refresh returns
RefreshReturns(listed) ==
  /\ pc = "refresh"
  /\ app' = Some(IF listed.ok THEN replace_tasks(app.val, listed.val)
                 ELSE refresh_failed(app.val, listed.err))
  /\ pc' = "loop"
  /\ UNCHANGED <<argv, sent, inflight, response, body, outcomes, result, input,
                 output, terminal, loop_result, restore_result>>

\* the end of run_dashboard for what restore_terminal has done
AfterRestore(done) ==
  /\ terminal' = done.terminal
  /\ restore_result' = Some(done.result)
  /\ DashboardReturns(dashboard_result(loop_result.val, done.result))

\* let restore_result = restore_terminal(&mut terminal), and the match
RestoreTerminal(failing) ==
  /\ pc = "restore"
  /\ AfterRestore(restore_terminal(terminal, failing))
  /\ UNCHANGED <<argv, sent, inflight, response, body, outcomes, input, output,
                 app, loop_result>>

NextDashboard ==
  \/ \E listed \in ListResults : FirstList(listed)
  \/ \E failing \in 0..4 : SetupTerminal(failing)
  \/ DrawFails
  \/ \E context \in {"TUI poll failed", "TUI event read failed"} :
       InputFails(context)
  \/ \E event \in QuietEvents : Quiet(event)
  \/ \E key \in Keys : KeyReleased(key)
  \/ \E key \in Keys : KeyPressed(key)
  \/ \E listed \in ListResults : RefreshReturns(listed)
  \/ \E failing \in 0..3 : RestoreTerminal(failing)

SpecDashboard == InitDashboard /\ [][NextDashboard]_vars

(***************************************************************************)
(* Claims about the dashboard.                                             *)
(***************************************************************************)
Returned == pc = "returned"

\* restore_terminal ran and failed
RestoreFailed == IsSome(restore_result) /\ ~restore_result.val.ok

\* the terminal is out of raw mode, off the alternate screen, cursor shown
Restored == ~terminal.raw /\ ~terminal.alternate /\ terminal.cursor

\* When run_dashboard has returned after the loop ran and restore_terminal
\* did not fail, the terminal is restored.
RestoredAfterLoop ==
  (Returned /\ IsSome(loop_result) /\ ~RestoreFailed) => Restored

\* C24: whenever run_dashboard has returned, by a quit key, a failure of the
\* loop or a failure of the terminal setup, and restoring did not itself
\* fail, the terminal is out of raw mode, off the alternate screen and shows
\* the cursor.
C24_TerminalRestoredOnExit == (Returned /\ ~RestoreFailed) => Restored

\* line is the first line of text: what precedes its first line break
IsFirstLineOf(line, text) ==
  /\ Len(line) <= Len(text)
  /\ line = SubSeq(text, 1, Len(line))
  /\ \A i \in 1..Len(line) : line[i] # "\n"
  /\ Len(line) < Len(text) => text[Len(line) + 1] = "\n"

\* the status is "Refresh failed: " and the first line of one of the errors
FailureStatus(status) ==
  /\ IsSome(status)
  /\ \E e \in ListErrors : \E n \in 0..Len(Display(e)) :
       /\ IsFirstLineOf(SubSeq(Display(e), 1, n), Display(e))
       /\ status.val = T("Refresh failed: ") \o SubSeq(Display(e), 1, n)

\* the step of a failed refresh: only the status message changes
FailedRefreshStep ==
  /\ FailureStatus(app'.val.status_message)
  /\ app' = Some([app.val EXCEPT !.status_message = app'.val.status_message])

\* the step of a successful refresh: the fetched list replaces the tasks
SuccessfulRefreshStep ==
  /\ app'.val.tasks \in TaskLists
  /\ app'.val.status_message = Some(RefreshedMessage(Len(app'.val.tasks)))
  /\ app'.val.filter = app.val.filter
  /\ app'.val.show_help = app.val.show_help
  /\ app'.val.command_buffer = app.val.command_buffer

QuitKeystroke(a, key) ==
  \/ key.code = Named("Esc")
  \/ key.ctrl /\ key.code \in {Char("c"), Char("C")}
  \/ a.command_buffer = T(":") /\ key.code = Char("q") /\ ~key.ctrl /\ ~key.alt

\* in every state of the loop handle_key returns Quit exactly for the quit
\* keystrokes
QuitExactlyOnQuitKeystroke ==
  pc = "loop" =>
    \A key \in Keys :
      handle_key(app.val, key).action = "Quit" <=> QuitKeystroke(app.val, key)

\* a step that ends the loop successfully is the press of a quit keystroke
EndsOnlyByQuitKeystroke ==
  (loop_result = None /\ loop_result' = Some(Ok(<<>>))) =>
    \E key \in Keys :
      /\ QuitKeystroke(app.val, key)
      /\ KeyPressed(key)

\* C26: handle_key returns Quit for Esc and Ctrl+C in every mode and for q
\* typed right after ':', and for nothing else; the loop ends successfully
\* only by the press of such a key, never by a timeout, an event that is not
\* a key, or a key release.
C26_QuitOnlyByKeystroke ==
  /\ [](QuitExactlyOnQuitKeystroke)
  /\ [][EndsOnlyByQuitKeystroke]_vars

\* the loop has ended successfully while the help panel was open
C26_Witness ==
  /\ loop_result = Some(Ok(<<>>))
  /\ app.val.show_help

IsPrefixOf(part, whole) ==
  Len(part) <= Len(whole) /\ part = SubSeq(whole, 1, Len(part))

IsSuffixOf(part, whole) ==
  /\ Len(part) <= Len(whole)
  /\ part = SubSeq(whole, Len(whole) - Len(part) + 1, Len(whole))

\* the text of both errors is in that of res, the loop's first
HoldsBoth(res, looped, restored) ==
  /\ ~res.ok
  /\ IsPrefixOf(Display(looped.err), Display(res.err))
  /\ IsSuffixOf(Display(restored.err), Display(res.err))
  /\ Len(Display(res.err)) >= Len(Display(looped.err)) + Len(Display(restored.err))

\* what run_dashboard returns after the loop, for what the loop and the
\* restoration returned
ReturnedFor(res, looped, restored) ==
  /\ (looped.ok /\ restored.ok) => res = Ok(<<>>)
  /\ (~looped.ok /\ restored.ok) => res = looped
  /\ (looped.ok /\ ~restored.ok) => res = restored
  /\ (~looped.ok /\ ~restored.ok) => HoldsBoth(res, looped, restored)

\* C27: when run_dashboard has returned, it returned Ok only if the loop and
\* the restoration both ran and succeeded; the loop's error if only the loop
\* failed; the restoration's error if only the restoration failed; and an
\* error whose text starts with the loop's and ends with the restoration's
\* if both failed.
C27_NoFailureSwallowed ==
  Returned =>
    /\ result.val.ok =>
         /\ IsSome(loop_result) /\ loop_result.val.ok
         /\ IsSome(restore_result) /\ restore_result.val.ok
    /\ IsSome(loop_result) =>
         /\ IsSome(restore_result)
         /\ ReturnedFor(result.val, loop_result.val, restore_result.val)

\* run_dashboard has returned after the loop and the restoration both failed
C27_Witness ==
  /\ Returned
  /\ IsSome(loop_result) /\ ~loop_result.val.ok
  /\ IsSome(restore_result) /\ ~restore_result.val.ok

\* the selection is absent exactly when there is no task, and otherwise an
\* index below the number of tasks
SelectionValid(a) ==
  /\ IsNone(a.selected) <=> a.tasks = <<>>
  /\ IsSome(a.selected) => a.selected.val \in 0..(Len(a.tasks) - 1)

\* normal mode: no help panel, no command entry
NormalMode(a) == ~a.show_help /\ a.command_buffer = <<>>

\* where a key of normal mode that is no quit key moves a selection at
\* index among count tasks
MovedTo(key, index, count) ==
  IF key.code \in {Char("j"), Named("Down")} THEN (index + 1) % count
  ELSE IF key.code \in {Char("k"), Named("Up")} THEN (index + count - 1) % count
  ELSE IF key.code \in {Char("g"), Named("Home")} THEN 0
  ELSE IF key.code \in {Char("G"), Named("End")} THEN count - 1
  ELSE index

\* in normal mode every key that is no quit key leaves the selection where
\* MovedTo says
MovesAsPromised ==
  (pc = "loop" /\ NormalMode(app.val) /\ app.val.tasks # <<>>) =>
    \A key \in Keys :
      ~QuitKeystroke(app.val, key) =>
        handle_key(app.val, key).app.selected
          = Some(MovedTo(key, app.val.selected.val, Len(app.val.tasks)))

\* a successful refresh keeps the old index, clamped to the new last index
RefreshClamps ==
  (pc = "refresh" /\ app'.val.status_message = Some(RefreshedMessage(Len(app'.val.tasks))))
    => app'.val.selected
         = IF app'.val.tasks = <<>> THEN None
           ELSE IF IsNone(app.val.selected) THEN Some(0)
           ELSE IF app.val.selected.val < Len(app'.val.tasks) THEN app.val.selected
           ELSE Some(Len(app'.val.tasks) - 1)

\* C29: in every state of the dashboard the selection is absent exactly
\* when the task list is empty and otherwise below the number of tasks;
\* j/Down selects the next index and wraps to 0, k/Up the previous and wraps
\* to the last, g/Home 0, G/End the last; a successful refresh keeps the old
\* index clamped to the new last index.
C29_SelectionStaysValid ==
  /\ [](IsSome(app) => SelectionValid(app.val))
  /\ [](MovesAsPromised)
  /\ [][RefreshClamps]_vars

\* back in the loop after a refresh that fetched a single task, which is
\* selected
C29_Witness ==
  /\ pc = "loop"
  /\ Len(app.val.tasks) = 1
  /\ app.val.selected = Some(0)
  /\ app.val.status_message = Some(RefreshedMessage(1))

\* command entry is active
CommandEntry(a) == a.command_buffer # <<>>

\* while help is open a key other than '?', Enter and the quit keys changes
\* nothing and asks for nothing
HelpSwallowsKeys ==
  (pc = "loop" /\ app.val.show_help) =>
    \A key \in Keys :
      (key.code \notin {Char("?"), Named("Enter")} /\ ~QuitKeystroke(app.val, key))
        => handle_key(app.val, key) = Handled(app.val, "None")

\* while command entry is active no key moves the selection, opens help or
\* asks for a refresh
CommandKeepsSelection ==
  (pc = "loop" /\ CommandEntry(app.val)) =>
    \A key \in Keys :
      /\ handle_key(app.val, key).app.selected = app.val.selected
      /\ handle_key(app.val, key).app.tasks = app.val.tasks
      /\ ~handle_key(app.val, key).app.show_help
      /\ handle_key(app.val, key).action # "Refresh"

\* Backspace on a lone ':' and Enter on any command leave the buffer empty
CommandLeftByBackspaceAndEnter ==
  (pc = "loop" /\ CommandEntry(app.val)) =>
    \A key \in Keys :
      /\ (key.code = Named("Backspace") /\ app.val.command_buffer = T(":"))
           => NormalMode(handle_key(app.val, key).app)
      /\ key.code = Named("Enter")
           => handle_key(app.val, key).app.command_buffer = <<>>

\* C30: in every state of the dashboard the help panel and command entry
\* are not both active and the command buffer is empty or starts with ':';
\* while help is open every key other than '?', Enter and the quit keys
\* leaves the state as it is and triggers no refresh; while command entry is
\* active no key moves the selection, opens help or triggers a refresh,
\* Backspace on a lone ':' returns to normal mode and Enter clears the
\* buffer.
C30_ModesExclusive ==
  IsSome(app) =>
    /\ ~(app.val.show_help /\ CommandEntry(app.val))
    /\ CommandEntry(app.val) => app.val.command_buffer[1] = ":"
    /\ HelpSwallowsKeys
    /\ CommandKeepsSelection
    /\ CommandLeftByBackspaceAndEnter

\* Enter was pressed in command entry on a command that is not :q
C30_Witness ==
  /\ pc = "loop"
  /\ app.val.status_message = Some(T("Unknown command: :x"))
  /\ app.val.command_buffer = <<>>

(***************************************************************************)
(* truncate_debug_text applied to short texts of characters of one, two    *)
(* and three bytes.                                                        *)
(***************************************************************************)
TruncatedChars == {"a", "é", "€"}

InitTruncate ==
  /\ input \in [fn : {"truncate_debug_text"},
                text : SeqsUpTo(TruncatedChars, MaxText),
                max_chars : 0..MaxChars]
  /\ output = None
  /\ Idle

Truncate ==
  /\ input.fn = "truncate_debug_text"
  /\ Returns(truncate_debug_text(input.text, input.max_chars))

NextTruncate == Truncate

SpecTruncate == InitTruncate /\ [][NextTruncate]_vars

Truncated == input.fn = "truncate_debug_text" /\ IsSome(output)

\* the fifteen characters of the marker
MarkerChars ==
  <<".", ".", ".", " ", "<", "t", "r", "u", "n", "c", "a", "t", "e", "d", ">">>

\* res is text cut after count characters and followed by the marker
CutAfter(res, text, count) ==
  /\ Len(res) = count + 15
  /\ \A i \in 1..count : res[i] = text[i]
  /\ \A i \in 1..15 : res[count + i] = MarkerChars[i]

\* C28: truncate_debug_text(s, n) is s when s has at most n characters and
\* otherwise the first n characters of s followed by "... <truncated>"; it
\* never has more than n + 15 characters, whatever the bytes of s; the
\* summary budget, 512, is below the body budget, 8192.
C28_TruncationCountsCharacters ==
  /\ DEBUG_SUMMARY_LIMIT = 512
  /\ DEBUG_BODY_LIMIT = 8192
  /\ DEBUG_SUMMARY_LIMIT < DEBUG_BODY_LIMIT
  /\ Truncated =>
       /\ Len(input.text) <= input.max_chars => output.val = input.text
       /\ Len(input.text) > input.max_chars
            => CutAfter(output.val, input.text, input.max_chars)
       /\ Len(output.val) <= input.max_chars + 15

\* a text of exactly as many characters as the budget, and of more bytes,
\* was returned as it is
C28_Witness ==
  /\ Truncated
  /\ input.max_chars > 0
  /\ Len(input.text) = input.max_chars
  /\ Utf8Len(input.text) > input.max_chars
  /\ output.val = input.text

=============================================================================
